---- MODULE Spec2Model ----
(***************************************************************************)
(* SolarQuote UK: the solar calculation engine (lib/solar/calculations,    *)
(* lib/solar/constants), the lead scorer (lib/leads/scoring), the lead     *)
(* submission route with its rate limiter (app/api/leads/route), the       *)
(* postcode cache (lib/solar/postcodes), the irradiance lookup             *)
(* (lib/solar/pvgis) and the Location step of the wizard                   *)
(* (app/calculator/page).                                                  *)
(*                                                                         *)
(* The engine and the scorer are pure functions.  Each is an operator of   *)
(* this module, computed step by step as the TypeScript computes it; a     *)
(* specification draws the arguments of one call from a bounded set        *)
(* (Init), and its action performs the call and stores the return value.   *)
(*                                                                         *)
(* Numbers.  The code computes with IEEE doubles; the model computes with  *)
(* exact decimal fixed-point integers in the units below, so a product or  *)
(* quotient that the code rounds (Math.round) is rounded here from its     *)
(* exact rational value (half towards plus infinity, as Math.round).       *)
(* Where the exact value is a tie (x.5) the double the code rounds can lie *)
(* one ulp under it, and the code then returns one less than the model     *)
(* (1000 * 0.7 * 0.5 * 0.86 * 5.5 is 1655.5, the double 1655.4999...).     *)
(* The payback factor of the scorer reproduces its six such ties           *)
(* (PaybackTiesBelow).                                                     *)
(*   kWp sizes                      tenths of a kWp                        *)
(*   orientation, shading, loss,                                           *)
(*   self-consumption factors       hundredths                             *)
(*   pitch factor                   thousandths                            *)
(*   electricity and export rates   hundredths of a penny per kWh          *)
(*   savings, earnings, benefit     pence                                  *)
(*   system cost, roi25Years        pounds                                 *)
(*   payback period                 tenths of a year                       *)
(*   kWh, points, panel counts      units                                  *)
(* Infinity and NaN are the two non-finite doubles the code can produce;   *)
(* undefined is JavaScript's value of a missing property or argument.      *)
(*                                                                         *)
(* The route, the caches and the wizard have state: the rate limiter's     *)
(* Map, the browser's localStorage, the wizard's useState values and the   *)
(* lookups in flight.  Each handler is one action; an await on the network *)
(* splits a handler into the action before it and the action that runs     *)
(* when the promise settles.  Times are milliseconds, coordinates          *)
(* hundred-thousandths of a degree, and a string that the code trims,      *)
(* normalises or matches is the sequence of its characters.                *)
(***************************************************************************)
EXTENDS Integers, Sequences, FiniteSets, TLC

VARIABLES
    pc,         \* "call": the arguments are drawn; "return": the call has returned
    call,       \* the function called and its arguments, or the request handled
    ret,        \* the value returned, or the response sent
    divisions,  \* the divisions the call executed on a non-literal divisor
    dateNow,          \* Date.now(), in milliseconds
    rateLimitStore,   \* app/api/leads/route.ts: the Map from client IP to {count, resetTime}
    console,          \* the lines the route handler has logged, oldest first
    passed,           \* history: the {ip, time} of every request that passed checkRateLimit
    localStorage,     \* the browser's localStorage: key -> stored text (an entry)
    formState,        \* app/calculator/page.tsx: CalculatorPage's formState
    currentStep,      \* CalculatorPage's currentStep
    isValidating,     \* PostcodeStep's isValidating
    validationError,  \* PostcodeStep's validationError
    lookups           \* the validatePostcode calls awaiting lookupPostcode

vars == <<pc, call, ret, divisions, dateNow, rateLimitStore, console, passed, localStorage, formState, currentStep, isValidating, validationError, lookups>>

\* The state of the server, of the browser's storage and of the wizard: the
\* engine and the scorer neither read nor write it
ioVars == <<dateNow, rateLimitStore, console, passed, localStorage, formState, currentStep, isValidating, validationError, lookups>>

(***************************************************************************)
(* JavaScript values                                                       *)
(***************************************************************************)

\* Number.POSITIVE_INFINITY (part_006:234 returns it as the payback sentinel)
Infinity == 2000000000

\* NaN, the result of arithmetic on undefined
NaN == -2000000000

\* undefined: a missing optional argument, field or table entry
Undefined == -1999999999

IsFinite(x) == x # Infinity /\ x # NaN /\ x # Undefined

\* a number other than NaN (a comparison with NaN or undefined is false)
IsNumber(x) == x # NaN /\ x # Undefined

\* a + b on numbers that may be Infinity or NaN
Add(a, b) ==
    IF ~IsNumber(a) \/ ~IsNumber(b) THEN NaN
    ELSE IF a = Infinity \/ b = Infinity THEN Infinity
    ELSE a + b

\* JavaScript truthiness of a number-or-undefined: 0, NaN and undefined are falsy
TruthyNumber(x) == x # 0 /\ x # NaN /\ x # Undefined

\* JavaScript truthiness of a string-or-undefined: "" and undefined are falsy
TruthyString(s) == s # "undefined" /\ s # ""

\* Math.min on finite numbers and Infinity; NaN if either argument is NaN
Min(a, b) ==
    IF a = NaN \/ b = NaN THEN NaN
    ELSE IF a <= b THEN a ELSE b

Max(a, b) ==
    IF a = NaN \/ b = NaN THEN NaN
    ELSE IF a >= b THEN a ELSE b

\* Math.round(n / d) for integers n and d > 0: the nearest integer, a tie
\* rounded towards plus infinity
RoundDiv(n, d) == (n \div d) + (IF 2 * (n % d) >= d THEN 1 ELSE 0)

\* Math.round(x * m / d) for a number x that may be Infinity or NaN
\* (m > 0, d > 0): Math.round(Infinity) = Infinity, Math.round(NaN) = NaN
RoundScaled(x, m, d) ==
    IF x = NaN \/ x = Undefined THEN NaN
    ELSE IF x = Infinity THEN Infinity
    ELSE RoundDiv(x * m, d)

\* floor(a * b / c) for a >= 0, b >= 0, c > 0 with b * c < 2^31
MulDivFloor(a, b, c) == (a \div c) * b + ((a % c) * b) \div c

\* Math.round(a * b / c) under the same conditions
MulDivRound(a, b, c) == (a \div c) * b + RoundDiv((a % c) * b, c)

\* <<q, r>> with a * b = q * c + r and 0 <= r < c, for a >= 0, b >= 0 and
\* 0 < c < 2^30; computed bit by bit over a, so that no intermediate value
\* leaves the 32-bit integers
RECURSIVE MulDivRem(_, _, _)
MulDivRem(a, b, c) ==
    IF a = 0 THEN <<0, 0>>
    ELSE LET h == MulDivRem(a \div 2, b, c)
             q2 == 2 * h[1] + (2 * h[2]) \div c
             r2 == (2 * h[2]) % c
             r3 == r2 + (b % c)
         IN  IF a % 2 = 0 THEN <<q2, r2>>
             ELSE <<q2 + (b \div c) + (r3 \div c), r3 % c>>

(***************************************************************************)
(* lib/solar/constants.ts                                                  *)
(***************************************************************************)

\* pence per kWh, in hundredths of a penny
UK_ENERGY_CONFIG == [electricityRatePence |-> 2769, segExportRatePence |-> 1500]

\* pounds per kWp; thresholds in tenths of a kWp
SYSTEM_COST_CONFIG ==
    [costPerKwpSmall |-> 1500, costPerKwpMedium |-> 1300, costPerKwpLarge |-> 1100,
     smallMaxKwp |-> 30, mediumMaxKwp |-> 60]

RoofOrientation == {"N", "NE", "E", "SE", "S", "SW", "W", "NW", "flat"}

HomeOccupancy == {"always", "daytime", "evening", "variable"}

\* ShadingLevel = 0 | 0.5 | 0.75 | 0.9 | 1.0, in hundredths
ShadingLevel == {0, 50, 75, 90, 100}

SOLAR_CONFIG ==
    [gridCarbonFactor |-> 233,          \* 0.233 kg/kWh, in thousandths
     systemLossFactor |-> 86,           \* 0.86, in hundredths
     panelAreaPerKwp |-> 5,             \* m2 per kWp
     annualDegradation |-> 5,           \* 0.005, in thousandths
     panelWattage |-> 400,
     orientationFactors |->             \* hundredths
        [o \in RoofOrientation |->
            CASE o = "S" -> 100
              [] o \in {"SE", "SW"} -> 95
              [] o \in {"E", "W"} -> 85
              [] o \in {"NE", "NW"} -> 70
              [] o = "N" -> 55
              [] o = "flat" -> 90],
     selfConsumptionFactors |->         \* hundredths
        [h \in HomeOccupancy |->
            CASE h = "always" -> 45
              [] h = "daytime" -> 50
              [] h = "evening" -> 25
              [] h = "variable" -> 35],
     ukAverageIrradiance |-> 1000]

\* The anchor pitches, Object.keys(PITCH_FACTORS).map(Number).sort()
pitches == <<0, 10, 15, 20, 25, 30, 35, 40, 45, 50, 60, 70, 80, 90>>

\* The pitch-factor table, in thousandths
PITCH_FACTORS ==
    [p \in {pitches[i] : i \in 1..Len(pitches)} |->
        CASE p = 0 -> 900 [] p = 10 -> 940 [] p = 15 -> 960 [] p = 20 -> 980
          [] p = 25 -> 990 [] p = 30 -> 1000 [] p = 35 -> 1000 [] p = 40 -> 990
          [] p = 45 -> 970 [] p = 50 -> 940 [] p = 60 -> 880 [] p = 70 -> 800
          [] p = 80 -> 700 [] p = 90 -> 550]

\* The loop of getPitchFactor from index i on: the first interval
\* [pitches[i], pitches[i+1]] that holds clampedPitch decides; the interpolated
\* value lower + ratio * (upper - lower) is a whole number of thousandths for a
\* whole number of degrees
RECURSIVE PitchLoop(_, _)
PitchLoop(clampedPitch, i) ==
    IF i > Len(pitches) - 1 THEN PITCH_FACTORS[35]
    ELSE LET lower == pitches[i]
             upper == pitches[i + 1]
         IN  IF clampedPitch >= lower /\ clampedPitch <= upper
             THEN PITCH_FACTORS[lower]
                  + ((clampedPitch - lower) * (PITCH_FACTORS[upper] - PITCH_FACTORS[lower]))
                    \div (upper - lower)
             ELSE PitchLoop(clampedPitch, i + 1)

\* getPitchFactor without the interpolation: the value of the greatest anchor
\* that is not above the clamped pitch
getPitchFactorOfLowerAnchor(pitch) ==
    LET clampedPitch == Max(0, Min(90, pitch))
        anchors == {a \in DOMAIN PITCH_FACTORS : a <= clampedPitch}
    IN  PITCH_FACTORS[CHOOSE a \in anchors : \A b \in anchors : b <= a]

\* getPitchFactor(pitch), pitch in whole degrees
getPitchFactor(pitch) == PitchLoop(Max(0, Min(90, pitch)), 1)

(***************************************************************************)
(* lib/solar/calculations.ts: system sizing                                *)
(***************************************************************************)

\* round(roofArea / 5 * 10) / 10, in tenths of a kWp
calculateMaxSystemSize(roofArea) ==
    RoundDiv(roofArea * 10, SOLAR_CONFIG.panelAreaPerKwp)

\* The factor product with the shading factor counted as the shaded share
FactorProductOfShadedShare(orientationFactor, pitchFactor, shadingFactor) ==
    orientationFactor * pitchFactor * (150 - shadingFactor) * SOLAR_CONFIG.systemLossFactor

\* irradiance * orientationFactor * pitchFactor * shadingFactor * systemLossFactor
\* without the irradiance, in units of 10^-9
FactorProduct(orientationFactor, pitchFactor, shadingFactor) ==
    orientationFactor * pitchFactor * shadingFactor * SOLAR_CONFIG.systemLossFactor

\* round(recommendedKwp * 10) / 10 in tenths of a kWp, where
\*   recommendedKwp = annualUsage * 0.9 / (irradiance * factors * 0.86);
\* a zero divisor gives Infinity (0 / 0 gives NaN), an undefined factor NaN.
\* floor(2x) is taken exactly, then round(x) = floor((floor(2x) + 1) / 2).
calculateRecommendedSize(annualUsage, irradiance, orientationFactor, pitchFactor, shadingFactor) ==
    IF ~IsNumber(irradiance) \/ ~IsNumber(orientationFactor)
       \/ ~IsNumber(pitchFactor) \/ ~IsNumber(shadingFactor) THEN NaN
    ELSE LET factors == FactorProduct(orientationFactor, pitchFactor, shadingFactor)
         IN  IF factors = 0 \/ irradiance = 0
             THEN (IF annualUsage = 0 THEN NaN ELSE Infinity)
             ELSE ((MulDivRem(18 * annualUsage, 1000000000, factors)[1]
                        \div irradiance) + 1) \div 2

\* round(min(recommendedKwp, maxKwp) * 2) / 2, in tenths of a kWp
determineFinalSystemSize(recommendedKwp, maxKwp) ==
    LET finalKwp == Min(recommendedKwp, maxKwp)
    IN  IF ~IsFinite(finalKwp) THEN finalKwp
        ELSE 5 * RoundDiv(finalKwp * 2, 10)

\* ceil(systemSizeKwp * 1000 / 400)
calculatePanelCount(systemSizeKwp) ==
    IF ~IsFinite(systemSizeKwp) THEN systemSizeKwp
    ELSE -((-(systemSizeKwp * 100)) \div SOLAR_CONFIG.panelWattage)

(***************************************************************************)
(* lib/solar/calculations.ts: generation estimation                       *)
(***************************************************************************)

\* round(systemSizeKwp * irradiance * factors * 0.86): with
\* y = floor(size10 * irradiance * factors / 10^9), the generation x is
\* size10 * irradiance * factors / 10^10, floor(2x) = floor(y / 5) and
\* round(x) = floor((floor(2x) + 1) / 2)
calculateAnnualGeneration(systemSizeKwp, irradiance, orientationFactor, pitchFactor, shadingFactor) ==
    IF ~IsFinite(systemSizeKwp) \/ ~IsNumber(irradiance) \/ ~IsNumber(orientationFactor)
       \/ ~IsNumber(pitchFactor) \/ ~IsNumber(shadingFactor) THEN NaN
    ELSE LET factors == FactorProduct(orientationFactor, pitchFactor, shadingFactor)
         IN  ((MulDivRem(systemSizeKwp * irradiance, factors, 1000000000)[1] \div 5) + 1)
                \div 2

\* The fraction of the annual generation of each month, in hundredths
getMonthlyDistribution == <<3, 5, 8, 10, 12, 13, 13, 11, 9, 7, 5, 4>>

monthNames ==
    <<"January", "February", "March", "April", "May", "June", "July", "August",
      "September", "October", "November", "December">>

\* Math.round(kwh * ratio), ratio in hundredths or undefined
RoundRatio(kwh, ratio) ==
    IF ~IsNumber(kwh) \/ ~IsNumber(ratio) THEN NaN
    ELSE RoundDiv(kwh * ratio, 100)

\* a - b shown to the nearest 10 kWh
SubRoundedToTens(a, b) ==
    IF ~IsNumber(a) \/ ~IsNumber(b) THEN NaN ELSE 10 * RoundDiv(a - b, 10)

\* a - b on numbers that may be NaN
Sub(a, b) == IF ~IsNumber(a) \/ ~IsNumber(b) THEN NaN ELSE a - b

calculateMonthlyGeneration(annualGeneration, selfConsumptionRatio) ==
    [index \in 1..12 |->
        LET generationKwh == RoundRatio(annualGeneration, getMonthlyDistribution[index])
            selfConsumedKwh == RoundRatio(generationKwh, selfConsumptionRatio)
            exportedKwh == Sub(generationKwh, selfConsumedKwh)
        IN  [month |-> index,
             monthName |-> monthNames[index],
             generationKwh |-> generationKwh,
             selfConsumedKwh |-> selfConsumedKwh,
             exportedKwh |-> exportedKwh]]

(***************************************************************************)
(* lib/solar/calculations.ts: self-consumption and table lookups           *)
(***************************************************************************)

\* SOLAR_CONFIG.selfConsumptionFactors[occupancy]: undefined on a miss
calculateSelfConsumption(occupancy) ==
    IF occupancy \in DOMAIN SOLAR_CONFIG.selfConsumptionFactors
    THEN SOLAR_CONFIG.selfConsumptionFactors[occupancy]
    ELSE Undefined

\* SOLAR_CONFIG.orientationFactors[orientation]: undefined on a miss
getOrientationFactor(orientation) ==
    IF orientation \in DOMAIN SOLAR_CONFIG.orientationFactors
    THEN SOLAR_CONFIG.orientationFactors[orientation]
    ELSE Undefined

\* The value of a property that a plain object inherits from
\* Object.prototype: a function (or, for __proto__, an object), which is
\* truthy and is not a number
InheritedProperty == -1999999998

\* The property names every plain object inherits from Object.prototype
ObjectPrototypeKeys ==
    {"constructor", "toString", "toLocaleString", "valueOf", "hasOwnProperty",
     "isPrototypeOf", "propertyIsEnumerable", "__proto__", "__defineGetter__",
     "__defineSetter__", "__lookupGetter__", "__lookupSetter__"}

\* The regional-irradiance table, kWh/m2/year
REGIONAL_IRRADIANCE ==
    [region \in {"South West", "South East", "London", "West Midlands", "East Midlands",
                 "East of England", "North West", "North East", "Yorkshire", "Wales",
                 "Scotland South", "Scotland Central", "Scotland North",
                 "Scottish Highlands", "Northern Ireland", "default"} |->
        CASE region = "South West" -> 1100
          [] region = "South East" -> 1050
          [] region \in {"London", "East of England"} -> 1000
          [] region \in {"West Midlands", "East Midlands", "Wales", "default"} -> 950
          [] region = "Yorkshire" -> 920
          [] region \in {"North West", "North East", "Scotland South",
                         "Northern Ireland"} -> 900
          [] region = "Scotland Central" -> 880
          [] region = "Scotland North" -> 850
          [] region = "Scottish Highlands" -> 800]

\* REGIONAL_IRRADIANCE[region], a property read of an object literal: an own
\* entry, else a property inherited from Object.prototype, else undefined
RegionalEntry(region) ==
    IF region \in DOMAIN REGIONAL_IRRADIANCE THEN REGIONAL_IRRADIANCE[region]
    ELSE IF region \in ObjectPrototypeKeys THEN InheritedProperty
    ELSE Undefined

\* REGIONAL_IRRADIANCE[region] || REGIONAL_IRRADIANCE.default
getRegionalIrradiance(region) ==
    IF TruthyNumber(RegionalEntry(region)) THEN RegionalEntry(region)
    ELSE REGIONAL_IRRADIANCE["default"]

(***************************************************************************)
(* lib/solar/calculations.ts: financial calculations                       *)
(***************************************************************************)

\* Math.round(selfConsumedKwh * electricityRatePence) / 100, in pence
calculateAnnualSavings(selfConsumedKwh, electricityRatePence) ==
    RoundRatio(selfConsumedKwh, electricityRatePence)

\* Math.round(exportedKwh * exportRatePence) / 100, in pence
calculateExportEarnings(exportedKwh, exportRatePence) ==
    RoundRatio(exportedKwh, exportRatePence)

\* The cost tier with each threshold priced at the tier above it
CostPerKwpBelowThresholds(systemSizeKwp) ==
    IF IsNumber(systemSizeKwp) /\ systemSizeKwp < SYSTEM_COST_CONFIG.smallMaxKwp
    THEN SYSTEM_COST_CONFIG.costPerKwpSmall
    ELSE IF IsNumber(systemSizeKwp) /\ systemSizeKwp < SYSTEM_COST_CONFIG.mediumMaxKwp
    THEN SYSTEM_COST_CONFIG.costPerKwpMedium
    ELSE SYSTEM_COST_CONFIG.costPerKwpLarge

\* The cost tier of a size: a comparison with NaN is false, so NaN falls
\* through to the large tier
CostPerKwp(systemSizeKwp) ==
    IF IsNumber(systemSizeKwp) /\ systemSizeKwp <= SYSTEM_COST_CONFIG.smallMaxKwp
    THEN SYSTEM_COST_CONFIG.costPerKwpSmall
    ELSE IF IsNumber(systemSizeKwp) /\ systemSizeKwp <= SYSTEM_COST_CONFIG.mediumMaxKwp
    THEN SYSTEM_COST_CONFIG.costPerKwpMedium
    ELSE SYSTEM_COST_CONFIG.costPerKwpLarge

\* Math.round(systemSizeKwp * costPerKwp), in pounds
calculateSystemCost(systemSizeKwp) ==
    RoundScaled(systemSizeKwp, CostPerKwp(systemSizeKwp), 10)

\* calculatePaybackPeriod without its guard: a zero benefit divides by zero and
\* a negative benefit gives a negative payback
calculatePaybackPeriodUnguarded(systemCost, annualBenefit) ==
    IF ~IsNumber(annualBenefit) \/ ~IsNumber(systemCost) THEN NaN
    ELSE IF annualBenefit = 0 THEN (IF systemCost = 0 THEN NaN ELSE Infinity)
    ELSE IF annualBenefit < 0 THEN 0 - RoundDiv(systemCost * 1000, 0 - annualBenefit)
    ELSE RoundDiv(systemCost * 1000, annualBenefit)

\* Infinity if annualBenefit <= 0, else round(systemCost / annualBenefit * 10) / 10;
\* cost in pounds, benefit in pence, result in tenths of a year
calculatePaybackPeriod(systemCost, annualBenefit) ==
    IF IsNumber(annualBenefit) /\ annualBenefit <= 0 THEN Infinity
    ELSE IF ~IsNumber(annualBenefit) \/ ~IsNumber(systemCost) THEN NaN
    ELSE RoundDiv(systemCost * 1000, annualBenefit)

\* The panels of a loop without degradation keep their output
NoDegradation(pow) == pow

\* Math.pow(1 - degradation, year - 1) for the year after one whose power is
\* pow, in units of 10^-8
NextDegradation(pow) ==
    MulDivRound(pow, 1000 - SOLAR_CONFIG.annualDegradation, 1000)

\* One year of the loop of calculateROI25Years, in thousandths of a pound:
\* yearGeneration in 10^-4 kWh, split by the ratio, each part priced
YearBenefit(annualGeneration, pow, selfConsumptionRatio, electricityRatePence, exportRatePence) ==
    LET yearGeneration == MulDivRound(pow, annualGeneration, 10000)
        selfConsumed == MulDivRound(yearGeneration, selfConsumptionRatio, 100)
        exported == yearGeneration - selfConsumed
        savings == MulDivRound(selfConsumed, electricityRatePence, 100000)
        exportEarnings == MulDivRound(exported, exportRatePence, 100000)
    IN  savings + exportEarnings

\* The loop of calculateROI25Years from `year` on: totalBenefit in thousandths
\* of a pound
RECURSIVE ROILoop(_, _, _, _, _, _, _)
ROILoop(year, pow, totalBenefit, annualGeneration, selfConsumptionRatio, electricityRatePence, exportRatePence) ==
    IF year > 25 THEN totalBenefit
    ELSE ROILoop(year + 1, NextDegradation(pow),
                 totalBenefit + YearBenefit(annualGeneration, pow, selfConsumptionRatio,
                                            electricityRatePence, exportRatePence),
                 annualGeneration, selfConsumptionRatio, electricityRatePence,
                 exportRatePence)

\* Math.round(totalBenefit - systemCost), in pounds
calculateROI25Years(annualGeneration, selfConsumptionRatio, electricityRatePence, exportRatePence, systemCost) ==
    IF ~IsNumber(annualGeneration) \/ ~IsNumber(selfConsumptionRatio)
       \/ ~IsNumber(electricityRatePence) \/ ~IsNumber(exportRatePence)
       \/ ~IsNumber(systemCost) THEN NaN
    ELSE RoundDiv(ROILoop(1, 100000000, 0, annualGeneration, selfConsumptionRatio,
                          electricityRatePence, exportRatePence)
                  - systemCost * 1000, 1000)

(***************************************************************************)
(* lib/solar/calculations.ts: environmental impact                         *)
(***************************************************************************)

\* Math.round(annualGenerationKwh * 0.233)
calculateCO2Savings(annualGenerationKwh) ==
    RoundScaled(annualGenerationKwh, SOLAR_CONFIG.gridCarbonFactor, 1000)

\* The loop of calculateCO2Savings25Years: totalGeneration in hundredths of a kWh
RECURSIVE CO2Loop(_, _, _, _)
CO2Loop(year, pow, totalGeneration, annualGeneration) ==
    IF year > 25 THEN totalGeneration
    ELSE CO2Loop(year + 1, NextDegradation(pow),
                 totalGeneration
                    + RoundDiv(MulDivRound(pow, annualGeneration, 10000), 100),
                 annualGeneration)

\* Math.round(totalGeneration * 0.233)
calculateCO2Savings25Years(annualGeneration) ==
    IF ~IsNumber(annualGeneration) THEN NaN
    ELSE MulDivRound(CO2Loop(1, 100000000, 0, annualGeneration),
                     SOLAR_CONFIG.gridCarbonFactor, 100000)

(***************************************************************************)
(* lib/solar/calculations.ts: main calculation pipeline                    *)
(***************************************************************************)

\* irradiance || SOLAR_CONFIG.ukAverageIrradiance
UsedIrradiance(irradiance) ==
    IF TruthyNumber(irradiance) THEN irradiance ELSE SOLAR_CONFIG.ukAverageIrradiance

\* The source tag of a result that never names the fallback
IrradianceSourceAlwaysMeasured(irradiance) == "PVGIS"

\* irradiance ? 'PVGIS' : 'UK_AVERAGE'
IrradianceSource(irradiance) ==
    IF TruthyNumber(irradiance) THEN "PVGIS" ELSE "UK_AVERAGE"

\* The electricity rate with a surcharge of 2p north of 55 degrees
ElectricityRateByLatitude(inputs) ==
    (IF TruthyNumber(inputs.electricityUnitRate) THEN inputs.electricityUnitRate
     ELSE UK_ENERGY_CONFIG.electricityRatePence)
    + (IF IsNumber(inputs.latitude) /\ inputs.latitude >= 550 THEN 200 ELSE 0)

\* inputs.electricityUnitRate || UK_ENERGY_CONFIG.electricityRatePence
ElectricityRate(inputs) ==
    IF TruthyNumber(inputs.electricityUnitRate) THEN inputs.electricityUnitRate
    ELSE UK_ENERGY_CONFIG.electricityRatePence

\* inputs.exportTariffRate || UK_ENERGY_CONFIG.segExportRatePence
ExportRate(inputs) ==
    IF TruthyNumber(inputs.exportTariffRate) THEN inputs.exportTariffRate
    ELSE UK_ENERGY_CONFIG.segExportRatePence

\* Metadata whose irradianceUsed drifts with the clock
MetadataDriftingWithClock(now, usedIrradiance, irradianceSource, electricityRate, exportRate, orientationFactor) ==
    [calculatedAt |-> now,
     irradianceUsed |-> usedIrradiance + now,
     irradianceSource |-> irradianceSource,
     electricityRate |-> electricityRate,
     exportRate |-> exportRate,
     systemLossFactor |-> SOLAR_CONFIG.systemLossFactor,
     orientationFactor |-> orientationFactor]

\* The metadata of a result; calculatedAt is new Date().toISOString(), the
\* reading of the clock at the call
Metadata(now, usedIrradiance, irradianceSource, electricityRate, exportRate, orientationFactor) ==
    [calculatedAt |-> now,
     irradianceUsed |-> usedIrradiance,
     irradianceSource |-> irradianceSource,
     electricityRate |-> electricityRate,
     exportRate |-> exportRate,
     systemLossFactor |-> SOLAR_CONFIG.systemLossFactor,
     orientationFactor |-> orientationFactor]

\* calculateSolarEstimate(inputs, irradiance) called when the clock reads `now`
calculateSolarEstimate(inputs, irradiance, now) ==
    LET orientationFactor == getOrientationFactor(inputs.roofOrientation)
        pitchFactor == getPitchFactor(inputs.roofPitch)
        shadingFactor == inputs.shadingFactor
        usedIrradiance == UsedIrradiance(irradiance)
        irradianceSource == IrradianceSource(irradiance)
        electricityRate == ElectricityRate(inputs)
        exportRate == ExportRate(inputs)
        maxSize == calculateMaxSystemSize(inputs.roofArea)
        recommendedSize ==
            calculateRecommendedSize(inputs.annualElectricityUsage, usedIrradiance,
                                     orientationFactor, pitchFactor, shadingFactor)
        finalSize == determineFinalSystemSize(recommendedSize, maxSize)
        panelCount == calculatePanelCount(finalSize)
        annualGeneration ==
            calculateAnnualGeneration(finalSize, usedIrradiance, orientationFactor,
                                      pitchFactor, shadingFactor)
        selfConsumptionRatio == calculateSelfConsumption(inputs.homeOccupancy)
        selfConsumedKwh == RoundRatio(annualGeneration, selfConsumptionRatio)
        exportedKwh == Sub(annualGeneration, selfConsumedKwh)
        monthlyGeneration ==
            calculateMonthlyGeneration(annualGeneration, selfConsumptionRatio)
        annualSavings == calculateAnnualSavings(selfConsumedKwh, electricityRate)
        annualExportEarnings == calculateExportEarnings(exportedKwh, exportRate)
        totalAnnualBenefit == Add(annualSavings, annualExportEarnings)
        systemCost == calculateSystemCost(finalSize)
        paybackPeriod == calculatePaybackPeriod(systemCost, totalAnnualBenefit)
        roi25Years ==
            calculateROI25Years(annualGeneration, selfConsumptionRatio, electricityRate,
                                exportRate, systemCost)
        co2SavedAnnually == calculateCO2Savings(annualGeneration)
        co2Saved25Years == calculateCO2Savings25Years(annualGeneration)
        metadata ==
            Metadata(now, usedIrradiance, irradianceSource, electricityRate, exportRate,
                     orientationFactor)
    IN  [recommendedSystemSize |-> finalSize,
         numberOfPanels |-> panelCount,
         estimatedAnnualGeneration |-> annualGeneration,
         monthlyGeneration |-> monthlyGeneration,
         selfConsumptionRatio |-> selfConsumptionRatio,
         selfConsumedKwh |-> selfConsumedKwh,
         exportedKwh |-> exportedKwh,
         annualSavings |-> annualSavings,
         annualExportEarnings |-> annualExportEarnings,
         totalAnnualBenefit |-> totalAnnualBenefit,
         estimatedSystemCost |-> systemCost,
         paybackPeriod |-> paybackPeriod,
         roi25Years |-> roi25Years,
         co2SavedAnnually |-> co2SavedAnnually,
         co2Saved25Years |-> co2Saved25Years,
         metadata |-> metadata]

\* peakSunHours, the divisor of calculateRecommendedSize, in thousandths
PeakSunHours(irradiance, orientationFactor, pitchFactor, shadingFactor) ==
    IF ~IsNumber(irradiance) \/ ~IsNumber(orientationFactor)
       \/ ~IsNumber(pitchFactor) \/ ~IsNumber(shadingFactor) THEN NaN
    ELSE MulDivRem(irradiance,
                   FactorProduct(orientationFactor, pitchFactor, shadingFactor),
                   1000000)[1]

\* The divisions one call of calculateSolarEstimate executes whose divisor is
\* not a literal, each with its divisor: the two configuration values, the
\* divisor of calculateRecommendedSize, and the divisor of
\* calculatePaybackPeriod when its guard lets the division run
EstimateDivisions(inputs, irradiance, results) ==
    LET benefit == results.totalAnnualBenefit
    IN  << [site |-> "calculateMaxSystemSize", divisor |-> SOLAR_CONFIG.panelAreaPerKwp],
           [site |-> "calculateRecommendedSize",
            divisor |-> PeakSunHours(UsedIrradiance(irradiance),
                                     getOrientationFactor(inputs.roofOrientation),
                                     getPitchFactor(inputs.roofPitch),
                                     inputs.shadingFactor)],
           [site |-> "calculatePanelCount", divisor |-> SOLAR_CONFIG.panelWattage] >>
        \o (IF IsNumber(benefit) /\ benefit <= 0 THEN <<>>
            ELSE << [site |-> "calculatePaybackPeriod", divisor |-> benefit] >>)

(***************************************************************************)
(* lib/leads/scoring.ts                                                    *)
(***************************************************************************)

SCORE_THRESHOLDS == [hot |-> 70, warm |-> 40]

SCORING_WEIGHTS ==
    [systemSize |-> 20, paybackPeriod |-> 20, annualSavings |-> 15,
     roofArea |-> 10, phoneProvided |-> 15, nameProvided |-> 5,
     selfConsumption |-> 10, usageLevel |-> 5]

\* 1. min(20, round(size / 6 * 20)); size in tenths of a kWp
SystemSizePoints(results) ==
    Min(SCORING_WEIGHTS.systemSize,
        RoundScaled(results.recommendedSystemSize, SCORING_WEIGHTS.systemSize, 60))

\* The paybacks (tenths of a year) between 7 and 15 for which
\* (15 - payback) / 8 * 20 is an exact tie and its evaluation in doubles falls
\* one ulp below the tie, so that Math.round rounds it down:
\* 15 - 8.8 is 6.199999999999999, and ((15 - 8.8) / 8) * 20 is 15.499999999999998
PaybackTiesBelow == {88, 108, 124, 128, 144, 148}

\* The payback factor without the branch for 15 years and more
PaybackScoreWithoutZeroBranch(results) ==
    IF ~IsNumber(results.paybackPeriod) THEN NaN
    ELSE IF results.paybackPeriod <= 70 THEN SCORING_WEIGHTS.paybackPeriod
    ELSE IF results.paybackPeriod = Infinity THEN 0 - Infinity
    ELSE 0 - RoundDiv((results.paybackPeriod - 150) * SCORING_WEIGHTS.paybackPeriod, 80)

\* 2. 20 if payback <= 7; 0 if payback >= 15; else round((15 - payback) / 8 * 20);
\*    payback in tenths of a year
PaybackScore(results) ==
    IF ~IsNumber(results.paybackPeriod) THEN NaN
    ELSE IF results.paybackPeriod <= 70 THEN SCORING_WEIGHTS.paybackPeriod
    ELSE IF results.paybackPeriod >= 150 THEN 0
    ELSE RoundDiv((150 - results.paybackPeriod) * SCORING_WEIGHTS.paybackPeriod, 80)
         - (IF results.paybackPeriod \in PaybackTiesBelow THEN 1 ELSE 0)

\* 3. min(15, round(totalAnnualBenefit / 500 * 15)); benefit in pence
SavingsPoints(results) ==
    Min(SCORING_WEIGHTS.annualSavings,
        RoundScaled(results.totalAnnualBenefit, SCORING_WEIGHTS.annualSavings, 50000))

\* PhonePoints with the points of the name factor awarded for the phone
PhonePointsNameWeight(contact) ==
    IF TruthyString(contact.phone) THEN SCORING_WEIGHTS.nameProvided ELSE 0

\* 4. contact.phone ? 15 : 0
PhonePoints(contact) ==
    IF TruthyString(contact.phone) THEN SCORING_WEIGHTS.phoneProvided ELSE 0

\* NamePoints awarded for any name that is defined, the empty string included
NamePointsForDefinedName(contact) ==
    IF contact.name # "undefined" THEN SCORING_WEIGHTS.nameProvided ELSE 0

\* 5. contact.name ? 5 : 0
NamePoints(contact) ==
    IF TruthyString(contact.name) THEN SCORING_WEIGHTS.nameProvided ELSE 0

\* 6. round(selfConsumptionRatio * 10); ratio in hundredths
SelfConsumptionPoints(results) ==
    RoundScaled(results.selfConsumptionRatio, SCORING_WEIGHTS.selfConsumption, 100)

\* 7. 10 if numberOfPanels >= 12, else round(numberOfPanels / 12 * 10)
RoofAreaPoints(results) ==
    IF ~IsNumber(results.numberOfPanels) THEN NaN
    ELSE IF results.numberOfPanels >= 12 THEN SCORING_WEIGHTS.roofArea
    ELSE RoundDiv(results.numberOfPanels * SCORING_WEIGHTS.roofArea, 12)

\* The usage factor scoring the shortfall below 4000 kWh instead of the
\* generation
UsagePointsOfShortfall(results) ==
    Min(SCORING_WEIGHTS.usageLevel,
        RoundScaled(Sub(4000, results.estimatedAnnualGeneration), SCORING_WEIGHTS.usageLevel, 4000))

\* 8. min(5, round(estimatedAnnualGeneration / 4000 * 5))
UsagePoints(results) ==
    Min(SCORING_WEIGHTS.usageLevel,
        RoundScaled(results.estimatedAnnualGeneration, SCORING_WEIGHTS.usageLevel, 4000))

\* Category with the thresholds themselves left in the lower category
CategoryAboveThresholds(totalScore) ==
    IF ~IsNumber(totalScore) THEN "cool"
    ELSE IF totalScore > SCORE_THRESHOLDS.hot THEN "hot"
    ELSE IF totalScore > SCORE_THRESHOLDS.warm THEN "warm"
    ELSE "cool"

\* totalScore >= 70 ? 'hot' : totalScore >= 40 ? 'warm' : 'cool'
Category(totalScore) ==
    IF ~IsNumber(totalScore) THEN "cool"
    ELSE IF totalScore >= SCORE_THRESHOLDS.hot THEN "hot"
    ELSE IF totalScore >= SCORE_THRESHOLDS.warm THEN "warm"
    ELSE "cool"

calculateLeadScore(results, contact) ==
    LET systemSizePoints == SystemSizePoints(results)
        paybackScore == PaybackScore(results)
        savingsPoints == SavingsPoints(results)
        phonePoints == PhonePoints(contact)
        namePoints == NamePoints(contact)
        selfConsumptionPoints == SelfConsumptionPoints(results)
        roofAreaPoints == RoofAreaPoints(results)
        usagePoints == UsagePoints(results)
        totalScore ==
            Add(Add(Add(Add(Add(Add(Add(Add(0, systemSizePoints), paybackScore),
                savingsPoints), phonePoints), namePoints), selfConsumptionPoints),
                roofAreaPoints), usagePoints)
    IN  [totalScore |-> totalScore,
         category |-> Category(totalScore),
         factors |->
            << [name |-> "System Size", value |-> results.recommendedSystemSize,
                points |-> systemSizePoints],
               [name |-> "Payback Period", value |-> results.paybackPeriod,
                points |-> paybackScore],
               [name |-> "Annual Savings", value |-> results.totalAnnualBenefit,
                points |-> savingsPoints],
               [name |-> "Phone Provided", value |-> TruthyString(contact.phone),
                points |-> phonePoints],
               [name |-> "Name Provided", value |-> TruthyString(contact.name),
                points |-> namePoints],
               [name |-> "Self-Consumption", value |-> results.selfConsumptionRatio,
                points |-> selfConsumptionPoints],
               [name |-> "Roof Area", value |-> results.numberOfPanels,
                points |-> roofAreaPoints],
               [name |-> "Usage Level", value |-> results.estimatedAnnualGeneration,
                points |-> usagePoints] >>]

(***************************************************************************)
(* Values of a parsed JSON body                                            *)
(*                                                                         *)
(* A value carries its typeof; a string is the sequence of its characters, *)
(* so that trim, toLowerCase and the regular expressions are computed.     *)
(***************************************************************************)

JSUndefined == [t |-> "undefined", v |-> <<>>]

JSNull == [t |-> "null", v |-> <<>>]

JSString(chars) == [t |-> "string", v |-> chars]

JSNumber(n) == [t |-> "number", v |-> n]

JSBoolean(b) == [t |-> "boolean", v |-> b]

JSObject(fields) == [t |-> "object", v |-> fields]

\* A text that is no JSON: request.json() rejects
JSUnparsable == [t |-> "unparsable", v |-> <<>>]

\* !!x
Truthy(x) ==
    CASE x.t = "string" -> x.v # <<>>
      [] x.t = "number" -> x.v # 0
      [] x.t = "boolean" -> x.v
      [] x.t = "object" -> TRUE
      [] OTHER -> FALSE

\* x.name throws a TypeError when x is undefined or null
ThrowsOnProperty(x) == x.t \in {"undefined", "null"}

\* x.name otherwise: the property, or undefined when x has none of that name
Get(x, name) ==
    IF x.t = "object" /\ name \in DOMAIN x.v THEN x.v[name] ELSE JSUndefined

\* The characters \s matches, among those used here
Whitespace == {" ", "\t", "\n"}

Digits == {"0", "1", "2", "3", "4", "5", "6", "7", "8", "9"}

UpperCaseLetters == <<"A", "B", "C", "D", "E", "F", "G", "H", "I", "J", "K", "L", "M", "N", "O", "P", "Q", "R", "S", "T", "U", "V", "W", "X", "Y", "Z">>

LowerCaseLetters == <<"a", "b", "c", "d", "e", "f", "g", "h", "i", "j", "k", "l", "m", "n", "o", "p", "q", "r", "s", "t", "u", "v", "w", "x", "y", "z">>

Letters == {UpperCaseLetters[i] : i \in 1..26} \cup {LowerCaseLetters[i] : i \in 1..26}

\* String.prototype.trim
trim(s) ==
    LET kept == {i \in 1..Len(s) : s[i] \notin Whitespace}
    IN  IF kept = {} THEN <<>>
        ELSE SubSeq(s, CHOOSE i \in kept : \A j \in kept : i <= j,
                       CHOOSE i \in kept : \A j \in kept : i >= j)

\* String.prototype.toLowerCase
toLowerCase(s) ==
    [i \in 1..Len(s) |->
        IF \E k \in 1..26 : UpperCaseLetters[k] = s[i]
        THEN LowerCaseLetters[CHOOSE k \in 1..26 : UpperCaseLetters[k] = s[i]]
        ELSE s[i]]

\* String.prototype.toUpperCase
toUpperCase(s) ==
    [i \in 1..Len(s) |->
        IF \E k \in 1..26 : LowerCaseLetters[k] = s[i]
        THEN UpperCaseLetters[CHOOSE k \in 1..26 : LowerCaseLetters[k] = s[i]]
        ELSE s[i]]

\* s.replace(/[...]/g, ''): s without the characters of the class
Without(s, class) == SelectSeq(s, LAMBDA c : c \notin class)

(***************************************************************************)
(* lib/validation/lead-validation.ts                                       *)
(***************************************************************************)

\* /^[^\s@]+@[^\s@]+\.[^\s@]+$/ : no white space, one @ after at least one
\* character, and after the @ a dot that is neither first nor last
EMAIL_REGEX(s) ==
    /\ \A i \in 1..Len(s) : s[i] \notin Whitespace
    /\ Cardinality({i \in 1..Len(s) : s[i] = "@"}) = 1
    /\ LET at == CHOOSE i \in 1..Len(s) : s[i] = "@"
       IN  /\ at > 1
           /\ \E dot \in (at + 2)..(Len(s) - 1) : s[dot] = "."

\* regex.test(email.trim().toLowerCase()) with the default, non-strict regex
validateEmail(email) == EMAIL_REGEX(toLowerCase(trim(email)))

\* s is prefix followed by between least and most digits
PrefixThenDigits(s, prefix, least, most) ==
    /\ Len(s) >= Len(prefix) + least
    /\ Len(s) <= Len(prefix) + most
    /\ SubSeq(s, 1, Len(prefix)) = prefix
    /\ \A i \in (Len(prefix) + 1)..Len(s) : s[i] \in Digits

\* /^(?:(?:\+44\s?|0)(?:[\d\s]{9,13})|0\d{10}|\+44\d{10,13})$/ on a string
\* that holds no white space
UK_PHONE_REGEX(s) ==
    \/ PrefixThenDigits(s, <<"+", "4", "4">>, 9, 13)
    \/ PrefixThenDigits(s, <<"0">>, 9, 13)
    \/ PrefixThenDigits(s, <<"0">>, 10, 10)
    \/ PrefixThenDigits(s, <<"+", "4", "4">>, 10, 13)

\* validateUKPhone: an empty phone is valid, another one is cleaned of its
\* separators and tested
validateUKPhone(phone) ==
    IF phone = <<>> \/ trim(phone) = <<>> THEN TRUE
    ELSE UK_PHONE_REGEX(Without(phone, Whitespace \cup {"-", "(", ")"}))

(***************************************************************************)
(* app/api/leads/route.ts                                                  *)
(***************************************************************************)

\* The window of the rate limiter: resetTime = now + 3600000
RATE_LIMIT_WINDOW_MS == 3600000

\* The submissions let through in one window: record.count >= 5 is rejected
RATE_LIMIT_MAX == 5

\* checkRateLimit(ip) on the store at time now: whether the request passes,
\* and the store afterwards.  In this variant a rejected request is counted too.
checkRateLimitCountingRejections(store, ip, now) ==
    IF ip \notin DOMAIN store \/ now > store[ip].resetTime
    THEN [allowed |-> TRUE,
          store |-> [i \in DOMAIN store \cup {ip} |->
                        IF i = ip THEN [count |-> 1, resetTime |-> now + RATE_LIMIT_WINDOW_MS]
                        ELSE store[i]]]
    ELSE IF store[ip].count >= RATE_LIMIT_MAX
    THEN [allowed |-> FALSE, store |-> [store EXCEPT ![ip].count = @ + 1]]
    ELSE [allowed |-> TRUE, store |-> [store EXCEPT ![ip].count = @ + 1]]

\* checkRateLimit(ip) on the store at time now: whether the request passes,
\* and the store afterwards
checkRateLimit(store, ip, now) ==
    IF ip \notin DOMAIN store \/ now > store[ip].resetTime
    THEN [allowed |-> TRUE,
          store |-> [i \in DOMAIN store \cup {ip} |->
                        IF i = ip THEN [count |-> 1, resetTime |-> now + RATE_LIMIT_WINDOW_MS]
                        ELSE store[i]]]
    ELSE IF store[ip].count >= RATE_LIMIT_MAX
    THEN [allowed |-> FALSE, store |-> store]
    ELSE [allowed |-> TRUE, store |-> [store EXCEPT ![ip].count = @ + 1]]

\* /^[a-zA-Z\s\-']{2,100}$/
NAME_REGEX(s) ==
    /\ Len(s) >= 2
    /\ Len(s) <= 100
    /\ \A i \in 1..Len(s) : s[i] \in Letters \cup Whitespace \cup {"-", "'"}

\* What a call of validateLeadSubmission does: it throws a TypeError (a
\* property of undefined, or trim / replace of a value that is no string),
\* or it returns {valid, error}
Thrown == [threw |-> TRUE, valid |-> FALSE, error |-> "TypeError"]

Invalid(error) == [threw |-> FALSE, valid |-> FALSE, error |-> error]

Valid == [threw |-> FALSE, valid |-> TRUE, error |-> "undefined"]

\* validateLeadSubmission(contact, consent, calculationId), check by check
validateLeadSubmission(contact, consent, calculationId) ==
    IF ThrowsOnProperty(contact) THEN Thrown
    ELSE IF ~Truthy(Get(contact, "email")) THEN Invalid("Invalid email address")
    ELSE IF Get(contact, "email").t # "string" THEN Thrown
    ELSE IF ~validateEmail(Get(contact, "email").v) THEN Invalid("Invalid email address")
    ELSE IF Truthy(Get(contact, "phone")) /\ Get(contact, "phone").t # "string" THEN Thrown
    ELSE IF Truthy(Get(contact, "phone")) /\ ~validateUKPhone(Get(contact, "phone").v)
         THEN Invalid("Invalid UK phone number")
    ELSE IF ThrowsOnProperty(consent) THEN Thrown
    ELSE IF ~Truthy(Get(consent, "privacyAcceptance"))
         THEN Invalid("Privacy policy acceptance is required")
    ELSE IF ~Truthy(Get(consent, "marketingConsent"))
         THEN Invalid("Marketing consent is required")
    ELSE IF ~Truthy(calculationId) \/ calculationId.t # "string"
         THEN Invalid("Invalid calculation ID")
    ELSE IF Truthy(Get(contact, "name")) /\ Get(contact, "name").t # "string" THEN Thrown
    ELSE IF Truthy(Get(contact, "name")) /\ ~NAME_REGEX(trim(Get(contact, "name").v))
         THEN Invalid("Invalid name format")
    ELSE Valid

\* The client IP the route derives from the headers: the first item of
\* x-forwarded-for (a header is the sequence of its comma-separated items, the
\* empty sequence when the header is absent), else x-real-ip, else 'unknown'
ClientIP(headers) ==
    IF headers.xForwardedFor # <<>> /\ headers.xForwardedFor[1] # ""
    THEN headers.xForwardedFor[1]
    ELSE IF headers.xRealIp # "" THEN headers.xRealIp
    ELSE "unknown"

\* The lines createLead, storeConsentRecord and sendConfirmationEmail log, in
\* the order the handler awaits them
LeadLines == <<"[Lead Created]", "[Consent Record]", "[Email Sent]">>

\* NextResponse.json(body, {status})
Failure(status, error) == [status |-> status, success |-> FALSE, error |-> error, leadId |-> <<>>]

Created(leadId) == [status |-> 201, success |-> TRUE, error |-> "undefined", leadId |-> leadId]

\* What the handler does with the parsed body once the request has passed the
\* rate limiter: the response, and whether the three lines are logged.  A
\* body that is no JSON makes request.json() reject, a null body makes the
\* destructuring throw, and a TypeError of the validation is caught by the
\* handler's try: each is answered 500.
Submission(body, leadId) ==
    IF body.t \in {"unparsable", "null"}
    THEN [response |-> Failure(500, "Failed to process your request. Please try again later."),
          lines |-> <<>>]
    ELSE LET validation == validateLeadSubmission(Get(body, "contact"), Get(body, "consent"),
                                                  Get(body, "calculationId"))
         IN  IF validation.threw
             THEN [response |-> Failure(500, "Failed to process your request. Please try again later."),
                   lines |-> <<>>]
             ELSE IF ~validation.valid
             THEN [response |-> Failure(400, validation.error), lines |-> <<>>]
             ELSE [response |-> Created(leadId), lines |-> LeadLines]

\* passed with one more request of ip at time now
Pass(history, ip, now) ==
    [i \in DOMAIN history \cup {ip} |->
        IF i = ip THEN (IF ip \in DOMAIN history THEN Append(history[ip], now) ELSE <<now>>)
        ELSE history[i]]

\* POST /api/leads for one request.  checkRateLimit runs before the first
\* await, so it reads and writes rateLimitStore atomically; the rest of the
\* handler shares no state with other requests but the console.  A lead id is
\* `lead_${Date.now()}_${random}`; its random suffix is left out.
Handle(request) ==
    LET ip == ClientIP(request.headers)
        limit == checkRateLimit(rateLimitStore, ip, dateNow)
    IN  /\ rateLimitStore' = limit.store
        /\ pc' = "responded"
        /\ IF ~limit.allowed
           THEN /\ ret' = Failure(429, "Too many requests. Please try again later.")
                /\ call' = [request EXCEPT !.bodyUsed = FALSE]
                /\ UNCHANGED <<console, passed>>
           ELSE /\ passed' = Pass(passed, ip, dateNow)
                /\ call' = [request EXCEPT !.bodyUsed = TRUE]
                /\ LET done == Submission(request.body, <<"lead_", dateNow>>)
                   IN  /\ ret' = done.response
                       /\ console' = console \o done.lines
        /\ UNCHANGED <<divisions, dateNow, localStorage, formState, currentStep, isValidating, validationError, lookups>>

(***************************************************************************)
(* lib/solar/postcodes.ts: the postcode cache                              *)
(*                                                                         *)
(* Times are milliseconds; coordinates are hundred-thousandths of a degree. *)
(* localStorage maps a key to the text stored under it; the text of a      *)
(* cache entry is modelled by what JSON.parse reads back from it.          *)
(***************************************************************************)

\* null
Null == -1999999997

\* 7 * 24 * 60 * 60 * 1000
POSTCODE_CACHE_TTL_MS == 604800000

\* normalizePostcode: upper case without white space, and a space before the
\* last three characters when there are at least three
normalizePostcode(postcode) ==
    LET cleaned == Without(toUpperCase(trim(postcode)), Whitespace)
    IN  IF Len(cleaned) < 3 THEN cleaned
        ELSE SubSeq(cleaned, 1, Len(cleaned) - 3) \o <<" ">>
                 \o SubSeq(cleaned, Len(cleaned) - 2, Len(cleaned))

\* getCacheKey of the postcode cache: `postcode_lookup_${noSpace}`
getCacheKey(postcode) ==
    <<"postcode_lookup_", Without(normalizePostcode(postcode), Whitespace)>>

\* What JSON.parse(JSON.stringify(x)) reads back for a number-valued property:
\* NaN and Infinity are written as null, a missing property stays missing
JSONNumber(x) == IF x \in {NaN, Infinity} THEN Null ELSE x

\* JSON.parse(JSON.stringify(response)) for a PostcodeResponse
JSONPostcodeResponse(response) ==
    [response EXCEPT !.latitude = JSONNumber(@), !.longitude = JSONNumber(@)]

\* localStorage.setItem(key, text)
setItem(storage, key, text) ==
    [k \in DOMAIN storage \cup {key} |-> IF k = key THEN text ELSE storage[k]]

\* localStorage.removeItem(key)
removeItem(storage, key) == [k \in DOMAIN storage \ {key} |-> storage[k]]

\* setPostcodeCache(postcode, response) at time now: the storage afterwards.
\* When setItem throws (storage unavailable, quota exceeded) the catch leaves
\* the storage as it was.
setPostcodeCache(storage, postcode, response, now, setItemThrows) ==
    IF setItemThrows THEN storage
    ELSE setItem(storage, getCacheKey(postcode),
                 [data |-> JSONPostcodeResponse(response), timestamp |-> now,
                  expiry |-> now + POSTCODE_CACHE_TTL_MS])

\* A miss of getPostcodeCache
Miss(storage) == [value |-> [valid |-> FALSE, postcode |-> <<>>, latitude |-> Null, longitude |-> Null, region |-> "null"], hit |-> FALSE, storage |-> storage]

\* getPostcodeCache(postcode) at time now, in the variant that expires an
\* entry at its expiry time already (Date.now() >= entry.expiry)
getPostcodeCacheExpiringAtExpiry(storage, postcode, now) ==
    LET key == getCacheKey(postcode)
    IN  IF key \notin DOMAIN storage THEN Miss(storage)
        ELSE IF now >= storage[key].expiry THEN Miss(removeItem(storage, key))
        ELSE [value |-> storage[key].data, hit |-> TRUE, storage |-> storage]

\* getPostcodeCache(postcode) at time now: the value returned (hit is FALSE
\* when it is null) and the storage afterwards
getPostcodeCache(storage, postcode, now) ==
    LET key == getCacheKey(postcode)
    IN  IF key \notin DOMAIN storage THEN Miss(storage)
        ELSE IF now > storage[key].expiry THEN Miss(removeItem(storage, key))
        ELSE [value |-> storage[key].data, hit |-> TRUE, storage |-> storage]

\* clearPostcodeCache(postcode) for a given postcode
clearPostcodeCache(storage, postcode) == removeItem(storage, getCacheKey(postcode))

(***************************************************************************)
(* lib/solar/pvgis.ts                                                      *)
(*                                                                         *)
(* E_y is in tenths of a kWh/kWp, irradiance in kWh/m2/year.               *)
(***************************************************************************)

\* 24 * 60 * 60 * 1000
PVGIS_CACHE_TTL_MS == 86400000

\* x.toFixed(4) of a coordinate: its sign and its magnitude in
\* ten-thousandths (no coordinate drawn here lies on a tie)
toFixed4(x) == <<IF x < 0 THEN "-" ELSE "", ((IF x < 0 THEN 0 - x ELSE x) + 5) \div 10>>

\* getCacheKey of the PVGIS cache: `pvgis_${lat}_${lon}`
getPVGISCacheKey(latitude, longitude) == <<"pvgis_", toFixed4(latitude), toFixed4(longitude)>>

\* Date.now() < entry.expiry
isCacheValid(entry, now) == now < entry.expiry

\* No response: what getPVGISCache returns as null
NoResponse == [success |-> FALSE, latitude |-> Null, longitude |-> Null, annualIrradiance |-> Undefined, error |-> "null"]

\* getPVGISCache at time now: the response (hit is FALSE when it is null) and
\* the storage afterwards; without a window (server side) there is no cache
getPVGISCache(storage, hasWindow, latitude, longitude, now) ==
    LET key == getPVGISCacheKey(latitude, longitude)
    IN  IF ~hasWindow \/ key \notin DOMAIN storage
        THEN [value |-> NoResponse, hit |-> FALSE, storage |-> storage]
        ELSE IF ~isCacheValid(storage[key], now)
        THEN [value |-> NoResponse, hit |-> FALSE, storage |-> removeItem(storage, key)]
        ELSE [value |-> storage[key].data, hit |-> TRUE, storage |-> storage]

\* setPVGISCache at time now
setPVGISCache(storage, hasWindow, latitude, longitude, response, now) ==
    IF ~hasWindow THEN storage
    ELSE setItem(storage, getPVGISCacheKey(latitude, longitude),
                 [data |-> response, timestamp |-> now, expiry |-> now + PVGIS_CACHE_TTL_MS])

\* parseAndValidatePVGISResponse(raw, latitude, longitude); raw.months is the
\* length of E_m, undefined when E_m is no array
parseAndValidatePVGISResponse(raw, latitude, longitude) ==
    IF TruthyString(raw.error)
    THEN [success |-> FALSE, latitude |-> latitude, longitude |-> longitude,
          annualIrradiance |-> Undefined, error |-> raw.error]
    ELSE IF ~TruthyNumber(raw.E_y) \/ raw.months = Undefined
    THEN [success |-> FALSE, latitude |-> latitude, longitude |-> longitude,
          annualIrradiance |-> Undefined,
          error |-> "Invalid PVGIS response: missing E_y or E_m data"]
    ELSE IF raw.months # 12
    THEN [success |-> FALSE, latitude |-> latitude, longitude |-> longitude,
          annualIrradiance |-> Undefined, error |-> "Invalid PVGIS response: expected 12 months"]
    ELSE [success |-> TRUE, latitude |-> latitude, longitude |-> longitude,
          annualIrradiance |-> RoundDiv(raw.E_y, 10), error |-> "undefined"]

\* REGIONAL_IRRADIANCE[region] || REGIONAL_IRRADIANCE.default
getRegionalIrradianceFallback(region) ==
    IF TruthyNumber(RegionalEntry(region)) THEN RegionalEntry(region)
    ELSE REGIONAL_IRRADIANCE["default"]

\* The outcomes of the HTTP request: fetch rejects (network error, abort on
\* timeout), the status is not ok, the body is no JSON, or a body is parsed
RawResponses ==
    {[error |-> "undefined", E_y |-> 9800, months |-> 12],
     [error |-> "undefined", E_y |-> 4, months |-> 12],
     [error |-> "undefined", E_y |-> 9800, months |-> 11],
     [error |-> "undefined", E_y |-> 9800, months |-> Undefined],
     [error |-> "undefined", E_y |-> Undefined, months |-> 12],
     [error |-> "Internal Server Error", E_y |-> Undefined, months |-> Undefined]}

FetchOutcomes ==
    {[threw |-> TRUE, raw |-> [error |-> "undefined", E_y |-> Undefined, months |-> Undefined]]}
    \cup {[threw |-> FALSE, raw |-> r] : r \in RawResponses}

\* fetchPVGISIrradiance(latitude, longitude, region) at time now, for one
\* outcome of the HTTP request: the PVGISResponse and the storage afterwards
fetchPVGISIrradiance(storage, hasWindow, latitude, longitude, region, now, outcome) ==
    IF ~IsFinite(latitude) \/ ~IsFinite(longitude)
    THEN [response |-> [success |-> FALSE, latitude |-> Null, longitude |-> Null,
                        annualIrradiance |-> Undefined,
                        error |-> "Invalid coordinates: latitude and longitude must be finite numbers"],
          storage |-> storage]
    ELSE LET cached == getPVGISCache(storage, hasWindow, latitude, longitude, now)
             normalized == parseAndValidatePVGISResponse(outcome.raw, latitude, longitude)
         IN  IF cached.hit THEN [response |-> cached.value, storage |-> cached.storage]
             ELSE IF outcome.threw
             THEN [response |-> [success |-> FALSE, latitude |-> Null, longitude |-> Null,
                                 annualIrradiance |-> Undefined,
                                 error |-> "PVGIS unavailable. Using regional fallback"],
                   storage |-> cached.storage]
             ELSE [response |-> normalized,
                   storage |-> IF normalized.success
                               THEN setPVGISCache(cached.storage, hasWindow, latitude, longitude,
                                                  normalized, now)
                               ELSE cached.storage]

\* getIrradianceValue(latitude, longitude, region) at time now: the value
\* returned and the storage afterwards
getIrradianceValue(storage, hasWindow, latitude, longitude, region, now, outcome) ==
    LET result == fetchPVGISIrradiance(storage, hasWindow, latitude, longitude, region, now, outcome)
    IN  [value |-> IF result.response.success /\ TruthyNumber(result.response.annualIrradiance)
                   THEN result.response.annualIrradiance
                   ELSE IF TruthyString(region) THEN getRegionalIrradianceFallback(region)
                   ELSE SOLAR_CONFIG.ukAverageIrradiance,
         storage |-> result.storage]

(***************************************************************************)
(* app/calculator/page.tsx: the wizard                                     *)
(***************************************************************************)

STEPS == <<"Location", "Roof Details", "Energy Usage">>

initialFormState ==
    [postcode |-> <<>>, latitude |-> Null, longitude |-> Null, region |-> "",
     roofOrientation |-> "S", roofPitch |-> 35, roofArea |-> 30, shadingLevel |-> 100,
     annualUsageKwh |-> 3000, occupancy |-> "variable"]

\* The truthiness of a coordinate that may be null or undefined
TruthyCoordinate(x) == TruthyNumber(x) /\ x # Null

\* canGoNext() on a step
canGoNext(step, form) ==
    CASE step = 0 -> Len(form.postcode) >= 5 /\ form.latitude # Null
      [] step = 1 -> form.roofArea >= 5 /\ form.roofArea <= 200
      [] step = 2 -> form.annualUsageKwh >= 500 /\ form.annualUsageKwh <= 20000
      [] OTHER -> FALSE

\* updateFormState(updates): {...prev, ...updates}
updateFormState(prev, updates) ==
    [f \in DOMAIN prev |-> IF f \in DOMAIN updates THEN updates[f] ELSE prev[f]]

\* The server, the browser's storage and the wizard before anything happened
InitIO ==
    /\ dateNow = 0
    /\ rateLimitStore = <<>>
    /\ console = <<>>
    /\ passed = <<>>
    /\ localStorage = <<>>
    /\ formState = initialFormState
    /\ currentStep = 0
    /\ isValidating = FALSE
    /\ validationError = "null"
    /\ lookups = {}

(***************************************************************************)
(* The lead scorer's arguments                                             *)
(***************************************************************************)

\* The results grid: every field ranges over k * step for k in -1 .. MaxGridSteps,
\* so each field takes a negative value, zero, values below its cap and values
\* far above it.
MaxGridSteps == 2

GridSteps == -1 .. MaxGridSteps

\* The results of the hot-lead example (scoring.test.ts:82-89 with
\* totalAnnualBenefit = 745): 6 kWp, 6 years, 15 panels, 5000 kWh, ratio 0.5
ExampleResults ==
    [recommendedSystemSize |-> 60, paybackPeriod |-> 60, totalAnnualBenefit |-> 74500,
     numberOfPanels |-> 15, estimatedAnnualGeneration |-> 5000,
     selfConsumptionRatio |-> 50]

ScorerResults ==
    { [recommendedSystemSize |-> 40 * s, paybackPeriod |-> p,
       totalAnnualBenefit |-> 30000 * b, numberOfPanels |-> 8 * n,
       estimatedAnnualGeneration |-> 2500 * g, selfConsumptionRatio |-> 75 * r] :
         s \in GridSteps, p \in {60, 110, Infinity}, b \in GridSteps,
         n \in GridSteps, g \in {0, 2}, r \in GridSteps }
    \cup {ExampleResults}

ScorerContacts ==
    { [email |-> "test@example.com", phone |-> ph, name |-> nm] :
         ph \in {"undefined", "", "07700900123"},
         nm \in {"undefined", "", "John Smith"} }

InitScore ==
    /\ pc = "call"
    /\ call \in { [fn |-> "calculateLeadScore", results |-> r, contact |-> c] :
                    r \in ScorerResults, c \in ScorerContacts }
    /\ ret = [fn |-> "none"]
    /\ divisions = <<>>
    /\ InitIO

ScoreLead ==
    /\ pc = "call"
    /\ call.fn = "calculateLeadScore"
    /\ ret' = calculateLeadScore(call.results, call.contact)
    /\ pc' = "return"
    /\ UNCHANGED <<call, divisions>>
    /\ UNCHANGED ioVars

NextScore == ScoreLead

SpecScore == InitScore /\ [][NextScore]_vars

\* The scorer is called on the example results with every payback from 0 to
\* MaxPaybackTenths tenths of a year and with the sentinel
MaxPaybackTenths == 160

InitPaybackFactor ==
    /\ pc = "call"
    /\ call \in { [fn |-> "calculateLeadScore",
                   results |-> [ExampleResults EXCEPT !.paybackPeriod = p],
                   contact |-> c] :
                    p \in (0..MaxPaybackTenths) \cup {Infinity},
                    c \in {x \in ScorerContacts : x.phone # "" /\ x.name # ""} }
    /\ ret = [fn |-> "none"]
    /\ divisions = <<>>
    /\ InitIO

SpecPaybackFactor == InitPaybackFactor /\ [][NextScore]_vars

(***************************************************************************)
(* The engine's arguments                                                  *)
(***************************************************************************)

\* The clock reads 0 .. MaxClock when calculateSolarEstimate is called
MaxClock == 1

\* An orientation and an occupancy outside the enumerated types
OtherOrientation == "UP"

OtherOccupancy == "weekends"

Locations ==
    { [postcode |-> "SW1A 1AA", latitude |-> 515, longitude |-> -1],
      [postcode |-> "EH1 1YZ", latitude |-> 560, longitude |-> -32] }

\* The rate overrides: absent, zero, and the custom rates of
\* calculations.test.ts:372-375
RateOverrides ==
    { [electricityUnitRate |-> Undefined, exportTariffRate |-> Undefined],
      [electricityUnitRate |-> 3000, exportTariffRate |-> 2000],
      [electricityUnitRate |-> 0, exportTariffRate |-> 0],
      [electricityUnitRate |-> Undefined, exportTariffRate |-> 0] }

EstimateInputs(orientations, pitchSet, areas, shadings, usages, occupancies, rates, locations) ==
    { [postcode |-> l.postcode, latitude |-> l.latitude, longitude |-> l.longitude,
       roofOrientation |-> o, roofPitch |-> p, roofArea |-> a, shadingFactor |-> s,
       annualElectricityUsage |-> u, homeOccupancy |-> h,
       electricityUnitRate |-> r.electricityUnitRate,
       exportTariffRate |-> r.exportTariffRate] :
         o \in orientations, p \in pitchSet, a \in areas, s \in shadings, u \in usages,
         h \in occupancies, r \in rates, l \in locations }

\* Every orientation, occupancy and shading level (and a value outside the
\* first two), on a roof that limits the system and one that does not
TableInputs ==
    EstimateInputs(RoofOrientation \cup {OtherOrientation}, {35}, {27, 500},
                   ShadingLevel, {3500}, HomeOccupancy \cup {OtherOccupancy},
                   {[electricityUnitRate |-> Undefined, exportTariffRate |-> Undefined]},
                   {CHOOSE l \in Locations : l.postcode = "SW1A 1AA"})

\* Roof, usage and pitch from the least to the greatest documented value
SizingInputs ==
    EstimateInputs({"S", "N"}, {0, 35, 90}, {5, 27, 30, 500}, {100, 50, 0},
                   {500, 3500, 50000}, {"daytime", "variable"},
                   {[electricityUnitRate |-> Undefined, exportTariffRate |-> Undefined]},
                   {CHOOSE l \in Locations : l.postcode = "SW1A 1AA"})

\* The rate overrides and the locations
RateInputs ==
    EstimateInputs({"S"}, {35}, {30}, {100, 0}, {3500}, HomeOccupancy, RateOverrides,
                   Locations)

\* The irradiance argument: absent, zero, or a PVGIS value
Irradiances == {Undefined, 0, 950}

InitEstimate ==
    /\ pc = "call"
    /\ call \in { [fn |-> "calculateSolarEstimate", inputs |-> i, irradiance |-> irr,
                   now |-> t] :
                    i \in TableInputs \cup SizingInputs \cup RateInputs,
                    irr \in Irradiances, t \in 0..MaxClock }
    /\ ret = [fn |-> "none"]
    /\ divisions = <<>>
    /\ InitIO

Estimate ==
    /\ pc = "call"
    /\ call.fn = "calculateSolarEstimate"
    /\ ret' = calculateSolarEstimate(call.inputs, call.irradiance, call.now)
    /\ divisions' = EstimateDivisions(call.inputs, call.irradiance, ret')
    /\ pc' = "return"
    /\ UNCHANGED call
    /\ UNCHANGED ioVars

NextEstimate == Estimate

SpecEstimate == InitEstimate /\ [][NextEstimate]_vars

(***************************************************************************)
(* getPitchFactor, determineFinalSystemSize and calculateROI25Years called *)
(* on their own                                                            *)
(***************************************************************************)

\* getPitchFactor is called with every whole pitch from PitchMargin degrees
\* below 0 to PitchMargin degrees above 90
PitchMargin == 5

InitPitch ==
    /\ pc = "call"
    /\ call \in { [fn |-> "getPitchFactor", pitch |-> p] :
                    p \in (0 - PitchMargin) .. (90 + PitchMargin) }
    /\ ret = [fn |-> "none"]
    /\ divisions = <<>>
    /\ InitIO

PitchFactor ==
    /\ pc = "call"
    /\ call.fn = "getPitchFactor"
    /\ ret' = getPitchFactor(call.pitch)
    /\ pc' = "return"
    /\ UNCHANGED <<call, divisions>>
    /\ UNCHANGED ioVars

NextPitch == PitchFactor

SpecPitch == InitPitch /\ [][NextPitch]_vars

\* determineFinalSystemSize is called with every recommended and maximum size
\* from 0 to MaxSizeTenths tenths of a kWp, and with an infinite recommendation
MaxSizeTenths == 24

InitSize ==
    /\ pc = "call"
    /\ call \in { [fn |-> "determineFinalSystemSize", recommendedKwp |-> r, maxKwp |-> m] :
                    r \in (0..MaxSizeTenths) \cup {Infinity}, m \in 0..MaxSizeTenths }
    /\ ret = [fn |-> "none"]
    /\ divisions = <<>>
    /\ InitIO

FinalSize ==
    /\ pc = "call"
    /\ call.fn = "determineFinalSystemSize"
    /\ ret' = determineFinalSystemSize(call.recommendedKwp, call.maxKwp)
    /\ pc' = "return"
    /\ UNCHANGED <<call, divisions>>
    /\ UNCHANGED ioVars

NextSize == FinalSize

SpecSize == InitSize /\ [][NextSize]_vars

\* calculateROI25Years is called with every generation from 0 to
\* MaxSmallGeneration kWh and with the generations of the tests and of the
\* typical installation
MaxSmallGeneration == 6

ROICalls ==
    { [fn |-> "calculateROI25Years", annualGeneration |-> g, selfConsumptionRatio |-> r,
       electricityRatePence |-> e, exportRatePence |-> x, systemCost |-> c] :
         g \in (0..MaxSmallGeneration) \cup {3010, 3500},
         r \in {0, 25, 35, 45, 50, 100},
         e \in {0, 300, 2769, 3000},
         x \in {0, 200, 1500},
         c \in {0, 4550, 7000} }

InitROI ==
    /\ pc = "call"
    /\ call \in ROICalls
    /\ ret = [fn |-> "none"]
    /\ divisions = <<>>
    /\ InitIO

ROI25Years ==
    /\ pc = "call"
    /\ call.fn = "calculateROI25Years"
    /\ ret' = calculateROI25Years(call.annualGeneration, call.selfConsumptionRatio,
                                  call.electricityRatePence, call.exportRatePence,
                                  call.systemCost)
    /\ pc' = "return"
    /\ UNCHANGED <<call, divisions>>
    /\ UNCHANGED ioVars

NextROI == ROI25Years

SpecROI == InitROI /\ [][NextROI]_vars

\* calculatePaybackPeriod is called with costs of 0 to MaxCostSteps half-kWp
\* steps of the medium tier (650 pounds each) and with negative, zero and
\* positive benefits (in pence)
MaxCostSteps == 11

PaybackCalls ==
    { [fn |-> "calculatePaybackPeriod", systemCost |-> 650 * k, annualBenefit |-> b] :
         k \in 0..MaxCostSteps,
         b \in {-74500, -1, 0, 1, 50, 12345, 50000, 74500, 100000, 200000} }

InitPayback ==
    /\ pc = "call"
    /\ call \in PaybackCalls
    /\ ret = [fn |-> "none"]
    /\ divisions = <<>>
    /\ InitIO

PaybackPeriod ==
    /\ pc = "call"
    /\ call.fn = "calculatePaybackPeriod"
    /\ ret' = calculatePaybackPeriod(call.systemCost, call.annualBenefit)
    /\ pc' = "return"
    /\ UNCHANGED <<call, divisions>>
    /\ UNCHANGED ioVars

NextPayback == PaybackPeriod

SpecPayback == InitPayback /\ [][NextPayback]_vars

\* calculateMonthlyGeneration is called with every annual generation from
\* -MaxMonthlyKwh to MaxMonthlyKwh kWh and with the generations of the typical
\* installations, under the configured ratios, 0 and 1; the same behaviours
\* hold the calls of calculateSolarEstimate
MaxMonthlyKwh == 120

MonthlyCalls ==
    { [fn |-> "calculateMonthlyGeneration", annualGeneration |-> g,
       selfConsumptionRatio |-> r] :
         g \in ((0 - MaxMonthlyKwh)..MaxMonthlyKwh) \cup {3010, 4730},
         r \in {0, 25, 35, 45, 50, 100} }

InitMonthly ==
    /\ pc = "call"
    /\ call \in MonthlyCalls
    /\ ret = [fn |-> "none"]
    /\ divisions = <<>>
    /\ InitIO

MonthlyGeneration ==
    /\ pc = "call"
    /\ call.fn = "calculateMonthlyGeneration"
    /\ ret' = calculateMonthlyGeneration(call.annualGeneration, call.selfConsumptionRatio)
    /\ pc' = "return"
    /\ UNCHANGED <<call, divisions>>
    /\ UNCHANGED ioVars

InitSplit == InitEstimate \/ InitMonthly

NextSplit == Estimate \/ MonthlyGeneration

SpecSplit == InitSplit /\ [][NextSplit]_vars

\* calculateSystemCost is called with every size from 0 to MaxCostSizeTenths
\* tenths of a kWp
MaxCostSizeTenths == 120

InitCost ==
    /\ pc = "call"
    /\ call \in { [fn |-> "calculateSystemCost", systemSizeKwp |-> k] :
                    k \in 0..MaxCostSizeTenths }
    /\ ret = [fn |-> "none"]
    /\ divisions = <<>>
    /\ InitIO

SystemCost ==
    /\ pc = "call"
    /\ call.fn = "calculateSystemCost"
    /\ ret' = calculateSystemCost(call.systemSizeKwp)
    /\ pc' = "return"
    /\ UNCHANGED <<call, divisions>>
    /\ UNCHANGED ioVars

NextCost == SystemCost

SpecCost == InitCost /\ [][NextCost]_vars

\* Region names that are not entries of the table: names postcodes.io
\* returns, other spellings of the entries, and other strings
UnknownRegions ==
    {"Unknown Region", "", "Yorkshire and The Humber", "Scotland", "England", "london",
     "LONDON", "south west", "South-West", "Cornwall", "Greater London", "Isle of Man",
     "Channel Islands", "Jersey", "Guernsey", "North", "South", "Midlands", "Highlands",
     "Ulster", "Default", "undefined", "null", "0", "1000"}

InitRegion ==
    /\ pc = "call"
    /\ call \in { [fn |-> "getRegionalIrradiance", region |-> r] :
                    r \in DOMAIN REGIONAL_IRRADIANCE \cup UnknownRegions
                          \cup ObjectPrototypeKeys }
    /\ ret = [fn |-> "none"]
    /\ divisions = <<>>
    /\ InitIO

RegionalIrradiance ==
    /\ pc = "call"
    /\ call.fn = "getRegionalIrradiance"
    /\ ret' = getRegionalIrradiance(call.region)
    /\ pc' = "return"
    /\ UNCHANGED <<call, divisions>>
    /\ UNCHANGED ioVars

NextRegion == RegionalIrradiance

SpecRegion == InitRegion /\ [][NextRegion]_vars

\* calculateRecommendedSize is called with positive arguments: usages from the
\* least to the greatest documented, irradiances of the regional table, and
\* factors of the orientation, pitch and shading tables
RecommendUsages == {500, 505, 3000, 3500, 50000}

RecommendIrradiances == {850, 1000, 1100}

RecommendOrientationFactors == {55, 70, 85, 95, 100}

RecommendPitchFactors == {550, 940, 990, 1000}

RecommendShadingFactors == {50, 75, 90, 100}

InitRecommend ==
    /\ pc = "call"
    /\ call \in { [fn |-> "calculateRecommendedSize", annualUsage |-> u, irradiance |-> irr,
                   orientationFactor |-> o, pitchFactor |-> p, shadingFactor |-> sh] :
                    u \in RecommendUsages, irr \in RecommendIrradiances,
                    o \in RecommendOrientationFactors, p \in RecommendPitchFactors,
                    sh \in RecommendShadingFactors }
    /\ ret = [fn |-> "none"]
    /\ divisions = <<>>
    /\ InitIO

RecommendedSize ==
    /\ pc = "call"
    /\ call.fn = "calculateRecommendedSize"
    /\ ret' = calculateRecommendedSize(call.annualUsage, call.irradiance,
                                       call.orientationFactor, call.pitchFactor,
                                       call.shadingFactor)
    /\ pc' = "return"
    /\ UNCHANGED <<call, divisions>>
    /\ UNCHANGED ioVars

NextRecommend == RecommendedSize

SpecRecommend == InitRecommend /\ [][NextRecommend]_vars

(***************************************************************************)
(* calculateSolarEstimate called repeatedly with the same arguments        *)
(***************************************************************************)

\* The same arguments are passed up to MaxRepeats times while the clock runs
\* and calls with other arguments come in between
MaxRepeats == 2

\* The arguments of the calls made in between
OtherCalls ==
    { [inputs |-> i, irradiance |-> irr] :
        i \in EstimateInputs({"E"}, {20}, {40}, {90}, {4200}, {"evening"},
                             {[electricityUnitRate |-> Undefined,
                               exportTariffRate |-> Undefined]},
                             {CHOOSE l \in Locations : l.postcode = "EH1 1YZ"}),
        irr \in {Undefined, 950} }

InitRepeat ==
    /\ pc = "call"
    /\ call \in { [fn |-> "calculateSolarEstimate", inputs |-> i, irradiance |-> irr,
                   now |-> 0] :
                    i \in {x \in RateInputs : x.postcode = "SW1A 1AA"},
                    irr \in Irradiances }
    /\ ret = <<>>
    /\ divisions = <<>>
    /\ InitIO

\* The clock advances between calls
Tick ==
    /\ call.now < MaxClock
    /\ call' = [call EXCEPT !.now = @ + 1]
    /\ UNCHANGED <<pc, ret, divisions>>
    /\ UNCHANGED ioVars

\* One more call with the same inputs and irradiance; its result is kept
EstimateAgain ==
    /\ Len(ret) < MaxRepeats
    /\ ret' = Append(ret, calculateSolarEstimate(call.inputs, call.irradiance, call.now))
    /\ pc' = "return"
    /\ UNCHANGED <<call, divisions>>
    /\ UNCHANGED ioVars

\* A call with other arguments: it shares no state with the repeated call,
\* and only the divisions it executed are recorded
EstimateOther ==
    /\ \E o \in OtherCalls :
          divisions' = EstimateDivisions(o.inputs, o.irradiance,
                           calculateSolarEstimate(o.inputs, o.irradiance, call.now))
    /\ divisions' # divisions
    /\ UNCHANGED <<pc, call, ret>>
    /\ UNCHANGED ioVars

NextRepeat == Tick \/ EstimateAgain \/ EstimateOther

SpecRepeat == InitRepeat /\ [][NextRepeat]_vars

(***************************************************************************)
(* calculateLeadScore called on results that differ in one field           *)
(***************************************************************************)

ScorerFields ==
    {"recommendedSystemSize", "paybackPeriod", "totalAnnualBenefit",
     "selfConsumptionRatio", "numberOfPanels", "estimatedAnnualGeneration"}

\* Results below every cap: 2 kWp, 11 years, 200 pounds, 5 panels, 1700 kWh,
\* ratio 0.35
ModestResults ==
    [recommendedSystemSize |-> 20, paybackPeriod |-> 110, totalAnnualBenefit |-> 20000,
     numberOfPanels |-> 5, estimatedAnnualGeneration |-> 1700,
     selfConsumptionRatio |-> 35]

\* The values a field is given: from below zero to above the value that earns
\* the full points of its factor, in steps that pass every point of the factor
FieldValues(field) ==
    CASE field = "recommendedSystemSize" -> -10 .. 70
      [] field = "paybackPeriod" -> {0} \cup (60 .. 160) \cup {Infinity}
      [] field = "totalAnnualBenefit" -> {1000 * k : k \in -2 .. 60}
      [] field = "selfConsumptionRatio" -> -10 .. 110
      [] field = "numberOfPanels" -> -2 .. 14
      [] field = "estimatedAnnualGeneration" -> {100 * k : k \in -4 .. 48}

InitMonotone ==
    /\ pc = "call"
    /\ call \in UNION { { [fn |-> "calculateLeadScore",
                            results |-> [base EXCEPT ![field] = v],
                            contact |-> c] :
                              base \in {ExampleResults, ModestResults},
                              v \in FieldValues(field),
                              c \in {x \in ScorerContacts : x.phone # "" /\ x.name = "undefined"} } :
                          field \in ScorerFields }
    /\ ret = [fn |-> "none"]
    /\ divisions = <<>>
    /\ InitIO

SpecMonotone == InitMonotone /\ [][NextScore]_vars

(***************************************************************************)
(* calculateSolarEstimate called for the same roof at several locations    *)
(***************************************************************************)

\* The locations of the calls: two addresses, a third one with coordinates
\* that are no numbers, and an empty form
Elsewhere ==
    Locations \cup { [postcode |-> "BT1 1AA", latitude |-> NaN, longitude |-> NaN],
                     [postcode |-> "", latitude |-> 0, longitude |-> 0] }

InitLocation ==
    /\ pc = "call"
    /\ call \in { [fn |-> "calculateSolarEstimate", inputs |-> i, irradiance |-> irr,
                   now |-> 0] :
                    i \in {x \in RateInputs : x.postcode = "SW1A 1AA"}
                          \cup {x \in TableInputs : x.roofArea = 27 /\ x.shadingFactor = 100
                                                       /\ x.homeOccupancy = "daytime"
                                                       /\ x.roofOrientation \in {"N", OtherOrientation}},
                    irr \in {Undefined, 950} }
    /\ ret = <<>>
    /\ divisions = <<>>
    /\ InitIO

\* One more call with the same roof, usage, occupancy, overrides and irradiance
\* at some location; the inputs and the result are kept
EstimateElsewhere ==
    /\ Len(ret) < MaxRepeats
    /\ \E l \in Elsewhere :
          LET inputs == [call.inputs EXCEPT !.postcode = l.postcode,
                                            !.latitude = l.latitude,
                                            !.longitude = l.longitude]
          IN  ret' = Append(ret, [inputs |-> inputs,
                                  results |-> calculateSolarEstimate(inputs, call.irradiance, call.now)])
    /\ pc' = "return"
    /\ UNCHANGED <<call, divisions>>
    /\ UNCHANGED ioVars

NextLocation == Tick \/ EstimateElsewhere

SpecLocation == InitLocation /\ [][NextLocation]_vars

(***************************************************************************)
(* POST /api/leads: the requests, and the clock of the server              *)
(***************************************************************************)

\* The instants at which requests arrive: the start of a window, the reset
\* time of that window and one millisecond after it
ServerInstants == {0, RATE_LIMIT_WINDOW_MS, RATE_LIMIT_WINDOW_MS + 1}

\* Date.now() moves on to a later instant
ServerClock ==
    /\ \E t \in ServerInstants : t > dateNow /\ dateNow' = t
    /\ UNCHANGED <<pc, call, ret, divisions, rateLimitStore, console, passed, localStorage, formState, currentStep, isValidating, validationError, lookups>>

\* The headers of the requests: two clients, one behind a proxy (203.0.113.7,
\* named by either header, also with further hops) and one without either header
RequestHeaders ==
    {[xForwardedFor |-> <<"203.0.113.7", "70.41.3.18">>, xRealIp |-> "10.0.0.1"],
     [xForwardedFor |-> <<"">>, xRealIp |-> "203.0.113.7"],
     [xForwardedFor |-> <<>>, xRealIp |-> ""]}

\* {contact: {email, phone, name}, consent: {privacyAcceptance, marketingConsent}, calculationId}
LeadBody(email, phone, name, privacyAcceptance, marketingConsent, calculationId) ==
    JSObject([contact |-> JSObject([email |-> email, phone |-> phone, name |-> name]),
              consent |-> JSObject([privacyAcceptance |-> privacyAcceptance,
                                    marketingConsent |-> marketingConsent]),
              calculationId |-> calculationId])

\* "jo@example.co", "07700900123", "Jo Smith" and "calc-1"
GoodEmail == JSString(<<"j", "o", "@", "e", "x", "a", "m", "p", "l", "e", ".", "c", "o">>)

GoodPhone == JSString(<<"0", "7", "7", "0", "0", "9", "0", "0", "1", "2", "3">>)

GoodName == JSString(<<"J", "o", " ", "S", "m", "i", "t", "h">>)

GoodCalculationId == JSString(<<"c", "a", "l", "c", "-", "1">>)

\* The body the lead form of the results page sends
FormBody == LeadBody(GoodEmail, GoodPhone, GoodName, JSBoolean(TRUE), JSBoolean(TRUE), GoodCalculationId)

\* Emails: missing, empty, " Jo@Example.co ", "jo@example", "jo@.co",
\* "j o@example.co", and a number
EmailValues ==
    {JSUndefined, JSString(<<>>), GoodEmail,
     JSString(<<" ", "J", "o", "@", "E", "x", "a", "m", "p", "l", "e", ".", "c", "o", " ">>),
     JSString(<<"j", "o", "@", "e", "x", "a", "m", "p", "l", "e">>),
     JSString(<<"j", "o", "@", ".", "c", "o">>),
     JSString(<<"j", " ", "o", "@", "e", "x", "a", "m", "p", "l", "e", ".", "c", "o">>),
     JSNumber(5)}

\* Phones: missing, "07700900123", "+44 7700 900123", "(020) 7946-0958",
\* "12345", and a number
PhoneValues ==
    {JSUndefined, GoodPhone,
     JSString(<<"+", "4", "4", " ", "7", "7", "0", "0", " ", "9", "0", "0", "1", "2", "3">>),
     JSString(<<"(", "0", "2", "0", ")", " ", "7", "9", "4", "6", "-", "0", "9", "5", "8">>),
     JSString(<<"1", "2", "3", "4", "5">>),
     JSNumber(7700900)}

\* Names: missing, "Jo Smith", "O'Neil-Day", "J", "J0hn", and a number
NameValues ==
    {JSUndefined, GoodName,
     JSString(<<"O", "'", "N", "e", "i", "l", "-", "D", "a", "y">>),
     JSString(<<"J">>),
     JSString(<<"J", "0", "h", "n">>),
     JSNumber(42)}

\* Consents: true, false, missing, the string "false", and 1
ConsentValues ==
    {JSBoolean(TRUE), JSBoolean(FALSE), JSUndefined, JSString(<<"f", "a", "l", "s", "e">>),
     JSNumber(1)}

\* Calculation ids: "calc-1", missing, empty, and a number
CalculationIdValues == {GoodCalculationId, JSUndefined, JSString(<<>>), JSNumber(42)}

\* The bodies: the form's body with one field varied, bodies without contact
\* or consent, null, and a text that is no JSON
Bodies ==
    {LeadBody(e, GoodPhone, GoodName, JSBoolean(TRUE), JSBoolean(TRUE), GoodCalculationId) : e \in EmailValues}
    \cup {LeadBody(GoodEmail, p, GoodName, JSBoolean(TRUE), JSBoolean(TRUE), GoodCalculationId) : p \in PhoneValues}
    \cup {LeadBody(GoodEmail, GoodPhone, n, JSBoolean(TRUE), JSBoolean(TRUE), GoodCalculationId) : n \in NameValues}
    \cup {LeadBody(GoodEmail, GoodPhone, GoodName, c, JSBoolean(TRUE), GoodCalculationId) : c \in ConsentValues}
    \cup {LeadBody(GoodEmail, GoodPhone, GoodName, JSBoolean(TRUE), c, GoodCalculationId) : c \in ConsentValues}
    \cup {LeadBody(GoodEmail, GoodPhone, GoodName, JSBoolean(TRUE), JSBoolean(TRUE), c) : c \in CalculationIdValues}
    \cup {LeadBody(GoodEmail, JSUndefined, JSUndefined, JSBoolean(TRUE), JSBoolean(TRUE), GoodCalculationId)}
    \cup {JSObject([consent |-> JSObject([privacyAcceptance |-> JSBoolean(TRUE), marketingConsent |-> JSBoolean(TRUE)]), calculationId |-> GoodCalculationId]),
          JSObject([contact |-> JSObject([email |-> GoodEmail]), calculationId |-> GoodCalculationId]),
          JSObject([contact |-> JSNull, calculationId |-> GoodCalculationId]),
          JSNull, JSUnparsable, JSNumber(7)}

InitLeads ==
    /\ pc = "idle"
    /\ call = [fn |-> "none"]
    /\ ret = [fn |-> "none"]
    /\ divisions = <<>>
    /\ InitIO

\* POST /api/leads with any body, from the client behind the proxy
POST ==
    /\ pc \in {"idle", "responded"}
    /\ \E b \in Bodies :
          Handle([headers |-> [xForwardedFor |-> <<"203.0.113.7">>, xRealIp |-> ""],
                  body |-> b, bodyUsed |-> FALSE])

NextLeads == POST

SpecLeads == InitLeads /\ [][NextLeads]_vars

\* Requests arrive until MaxPassed of them have passed the rate limiter
MaxPassed == 7

RECURSIVE TotalPassed(_)
TotalPassed(history) ==
    IF DOMAIN history = {} THEN 0
    ELSE LET ip == CHOOSE i \in DOMAIN history : TRUE
         IN  Len(history[ip]) + TotalPassed([i \in DOMAIN history \ {ip} |-> history[i]])

\* POST /api/leads with the form's body, with any of the headers, as time passes
POSTForm ==
    /\ TotalPassed(passed) < MaxPassed
    /\ \E h \in RequestHeaders : Handle([headers |-> h, body |-> FormBody, bodyUsed |-> FALSE])

NextRateLimit == ServerClock \/ POSTForm

SpecRateLimit == InitLeads /\ [][NextRateLimit]_vars

(***************************************************************************)
(* The postcode cache and getIrradianceValue in the browser                *)
(***************************************************************************)

\* The instants of the browser's clock: around the expiry of a PVGIS entry
\* and of a postcode entry written at 0 or at 1
BrowserInstants ==
    {0, 1, PVGIS_CACHE_TTL_MS - 1, PVGIS_CACHE_TTL_MS,
     POSTCODE_CACHE_TTL_MS, POSTCODE_CACHE_TTL_MS + 1, POSTCODE_CACHE_TTL_MS + 2}

\* Date.now() moves on to a later instant
BrowserClock ==
    /\ \E t \in BrowserInstants : t > dateNow /\ dateNow' = t
    /\ UNCHANGED <<pc, call, ret, divisions, rateLimitStore, console, passed, localStorage, formState, currentStep, isValidating, validationError, lookups>>

\* "SW1A 1AA", "sw1a1aa", "M1 1AA" and "M1 1"
SW1A_1AA == <<"S", "W", "1", "A", " ", "1", "A", "A">>

sw1a1aa == <<"s", "w", "1", "a", "1", "a", "a">>

M1_1AA == <<"M", "1", " ", "1", "A", "A">>

M1_1 == <<"M", "1", " ", "1">>

\* What postcodes.io knows: coordinates (hundred-thousandths of a degree) and region
PostcodeDirectory ==
    [p \in {SW1A_1AA, M1_1AA} |->
        IF p = SW1A_1AA
        THEN [valid |-> TRUE, postcode |-> SW1A_1AA, latitude |-> 5150101, longitude |-> -14156, region |-> "London"]
        ELSE [valid |-> TRUE, postcode |-> M1_1AA, latitude |-> 5347774, longitude |-> -222637, region |-> "North West"]]

\* The responses lookupPostcode caches: the directory's, and one of a
\* postcode that postcodes.io lists without coordinates
CachedResponses ==
    {PostcodeDirectory[p] : p \in DOMAIN PostcodeDirectory}
    \cup {[valid |-> TRUE, postcode |-> M1_1AA, latitude |-> Null, longitude |-> Null, region |-> "null"]}

InitPostcodeCache ==
    /\ pc = "idle"
    /\ call = [fn |-> "none"]
    /\ ret = [fn |-> "none"]
    /\ divisions = <<>>
    /\ InitIO

SetPostcodeCache ==
    \E p \in {SW1A_1AA, sw1a1aa, M1_1AA}, r \in CachedResponses, throws \in BOOLEAN :
        /\ localStorage' = setPostcodeCache(localStorage, p, r, dateNow, throws)
        /\ call' = [fn |-> "setPostcodeCache", postcode |-> p, response |-> r, setItemThrows |-> throws]
        /\ ret' = [fn |-> "setPostcodeCache"]
        /\ pc' = "return"
        /\ UNCHANGED <<divisions, dateNow, rateLimitStore, console, passed, formState, currentStep, isValidating, validationError, lookups>>

GetPostcodeCache ==
    \E p \in {SW1A_1AA, sw1a1aa, M1_1AA} :
        LET got == getPostcodeCache(localStorage, p, dateNow)
        IN  /\ localStorage' = got.storage
            /\ call' = [fn |-> "getPostcodeCache", postcode |-> p]
            /\ ret' = [fn |-> "getPostcodeCache", hit |-> got.hit, value |-> got.value]
            /\ pc' = "return"
            /\ UNCHANGED <<divisions, dateNow, rateLimitStore, console, passed, formState, currentStep, isValidating, validationError, lookups>>

ClearPostcodeCache ==
    \E p \in {SW1A_1AA, M1_1AA} :
        /\ localStorage' = clearPostcodeCache(localStorage, p)
        /\ call' = [fn |-> "clearPostcodeCache", postcode |-> p]
        /\ ret' = [fn |-> "clearPostcodeCache"]
        /\ pc' = "return"
        /\ UNCHANGED <<divisions, dateNow, rateLimitStore, console, passed, formState, currentStep, isValidating, validationError, lookups>>

NextPostcodeCache == BrowserClock \/ SetPostcodeCache \/ GetPostcodeCache \/ ClearPostcodeCache

SpecPostcodeCache == InitPostcodeCache /\ [][NextPostcodeCache]_vars

\* The coordinates getIrradianceValue is called with: two places 1 cm apart
\* (one cache key) and NaN
IrradianceCoordinates ==
    {[latitude |-> 5150101, longitude |-> -14156],
     [latitude |-> 5150102, longitude |-> -14156],
     [latitude |-> NaN, longitude |-> -14156]}

\* The regions it is called with: none ("undefined"), table entries, names
\* that are not in the table, and names every object inherits
IrradianceRegions ==
    {"undefined", "", "London", "Greater London", "constructor"}

InitIrradiance ==
    /\ pc = "idle"
    /\ call = [fn |-> "none"]
    /\ ret = [fn |-> "none"]
    /\ divisions = <<>>
    /\ InitIO

GetIrradianceValue ==
    \E c \in IrradianceCoordinates, region \in IrradianceRegions, outcome \in FetchOutcomes, hasWindow \in BOOLEAN :
        LET got == getIrradianceValue(localStorage, hasWindow, c.latitude, c.longitude, region, dateNow, outcome)
            result == fetchPVGISIrradiance(localStorage, hasWindow, c.latitude, c.longitude, region, dateNow, outcome)
        IN  /\ localStorage' = got.storage
            /\ call' = [fn |-> "getIrradianceValue", latitude |-> c.latitude, longitude |-> c.longitude, region |-> region]
            /\ ret' = [fn |-> "getIrradianceValue", value |-> got.value, result |-> result.response]
            /\ pc' = "return"
            /\ UNCHANGED <<divisions, dateNow, rateLimitStore, console, passed, formState, currentStep, isValidating, validationError, lookups>>

NextIrradiance == BrowserClock \/ GetIrradianceValue

SpecIrradiance == InitIrradiance /\ [][NextIrradiance]_vars

(***************************************************************************)
(* The Location step of the wizard                                         *)
(***************************************************************************)

\* At most MaxLookups calls of validatePostcode await lookupPostcode at a time
MaxLookups == 2

\* What the user types into the postcode field (maxLength 8)
TypedPostcodes == {SW1A_1AA, sw1a1aa, M1_1AA, M1_1, <<>>, <<"s", "w", "1", "a", " ", "1", "a", "a">>}

\* What lookupPostcode(postcode) resolves to or rejects with: the directory's
\* response, a response that is not valid, or a network error
LookupOutcomes(postcode) ==
    {[threw |-> TRUE, result |-> [valid |-> FALSE, postcode |-> postcode, latitude |-> Undefined, longitude |-> Undefined, region |-> "undefined"]]}
    \cup (IF normalizePostcode(postcode) \in DOMAIN PostcodeDirectory
          THEN {[threw |-> FALSE, result |-> PostcodeDirectory[normalizePostcode(postcode)]]}
          ELSE {[threw |-> FALSE, result |-> [valid |-> FALSE, postcode |-> normalizePostcode(postcode), latitude |-> Undefined, longitude |-> Undefined, region |-> "undefined"]]})

InitWizard ==
    /\ pc = "idle"
    /\ call = [fn |-> "none"]
    /\ ret = [fn |-> "none"]
    /\ divisions = <<>>
    /\ InitIO

\* handlePostcodeChange(value), on the Location step
HandlePostcodeChange ==
    /\ currentStep = 0
    /\ \E value \in TypedPostcodes :
          formState' = updateFormState(formState,
                           [postcode |-> trim(toUpperCase(value)), latitude |-> Null,
                            longitude |-> Null, region |-> ""])
    /\ validationError' = "null"
    /\ UNCHANGED <<pc, call, ret, divisions, dateNow, rateLimitStore, console, passed, localStorage, currentStep, isValidating, lookups>>

\* validatePostcode() up to its await: the postcode of this render is captured
validatePostcode ==
    IF Len(formState.postcode) < 5
    THEN /\ validationError' = "Please enter a valid UK postcode"
         /\ UNCHANGED <<isValidating, lookups>>
    ELSE /\ isValidating' = TRUE
         /\ validationError' = "null"
         /\ lookups' = lookups \cup {[postcode |-> formState.postcode, mounted |-> TRUE]}

\* The Verify button: disabled while validating and for a short postcode
Verify ==
    /\ currentStep = 0
    /\ ~isValidating
    /\ Len(formState.postcode) >= 5
    /\ Cardinality(lookups) < MaxLookups
    /\ validatePostcode
    /\ UNCHANGED <<pc, call, ret, divisions, dateNow, rateLimitStore, console, passed, localStorage, formState, currentStep>>

\* onBlur of the postcode field
Blur ==
    /\ currentStep = 0
    /\ Len(formState.postcode) >= 5
    /\ ~TruthyCoordinate(formState.latitude)
    /\ Cardinality(lookups) < MaxLookups
    /\ validatePostcode
    /\ UNCHANGED <<pc, call, ret, divisions, dateNow, rateLimitStore, console, passed, localStorage, formState, currentStep>>

\* validatePostcode() from its await on: lookupPostcode settles.  The state
\* of a PostcodeStep that has been unmounted meanwhile is no longer shown.
LookupSettles ==
    \E l \in lookups : \E outcome \in LookupOutcomes(l.postcode) :
        /\ lookups' = lookups \ {l}
        /\ IF ~outcome.threw /\ outcome.result.valid /\ TruthyCoordinate(outcome.result.latitude)
                /\ TruthyCoordinate(outcome.result.longitude)
           THEN /\ formState' = updateFormState(formState,
                                    [latitude |-> outcome.result.latitude,
                                     longitude |-> outcome.result.longitude,
                                     region |-> IF TruthyString(outcome.result.region)
                                                THEN outcome.result.region ELSE ""])
                /\ validationError' = validationError
           ELSE /\ formState' = formState
                /\ validationError' =
                      IF ~l.mounted THEN validationError
                      ELSE IF outcome.threw THEN "Failed to validate postcode. Please try again."
                      ELSE "Invalid postcode. Please check and try again."
        /\ isValidating' = IF l.mounted THEN FALSE ELSE isValidating
        /\ UNCHANGED <<pc, call, ret, divisions, dateNow, rateLimitStore, console, passed, localStorage, currentStep>>

\* handleNext(): leaving the Location step unmounts PostcodeStep
HandleNext ==
    /\ currentStep < Len(STEPS) - 1
    /\ canGoNext(currentStep, formState)
    /\ currentStep' = currentStep + 1
    /\ IF currentStep = 0
       THEN /\ lookups' = {[l EXCEPT !.mounted = FALSE] : l \in lookups}
            /\ isValidating' = FALSE
            /\ validationError' = "null"
       ELSE UNCHANGED <<lookups, isValidating, validationError>>
    /\ UNCHANGED <<pc, call, ret, divisions, dateNow, rateLimitStore, console, passed, localStorage, formState>>

\* handleBack()
HandleBack ==
    /\ currentStep > 0
    /\ currentStep' = currentStep - 1
    /\ UNCHANGED <<pc, call, ret, divisions, dateNow, rateLimitStore, console, passed, localStorage, formState, isValidating, validationError, lookups>>

NextWizard == HandlePostcodeChange \/ Verify \/ Blur \/ LookupSettles \/ HandleNext \/ HandleBack

SpecWizard == InitWizard /\ [][NextWizard]_vars

(***************************************************************************)
(* Claims about the lead scorer (checked under SpecScore)                  *)
(***************************************************************************)

Scored == pc = "return" /\ call.fn = "calculateLeadScore"

\* C1: for every results value and every contact, calculateLeadScore returns a
\* totalScore with 0 <= totalScore <= 100.
C1_TotalScoreWithin0And100 ==
    Scored => (ret.totalScore >= 0 /\ ret.totalScore <= 100)

\* The cap of each of the eight factors, in the order of the factor list
FactorCaps == <<20, 20, 15, 15, 5, 10, 10, 5>>

\* C2: in every calculateLeadScore output each factor's points lie between 0
\* and that factor's own cap.
C2_EveryFactorWithinItsCap ==
    Scored =>
        \A i \in 1..8 :
            ret.factors[i].points >= 0 /\ ret.factors[i].points <= FactorCaps[i]

EmailOnly(contact) == ~TruthyString(contact.phone) /\ ~TruthyString(contact.name)

PhoneAndName ==
    [email |-> "test@example.com", phone |-> "07700900123", name |-> "John Smith"]

\* C3 as stated: for the example results (benefit 745, size 6, payback 6,
\* 15 panels, 5000 kWh, ratio 0.5) a contact with only an email scores 35 points
\* fewer than the same results with phone and name present, and its total is
\* 'warm' (40 <= total < 70).
C3_EmailOnlyExampleIsWarm ==
    (Scored /\ call.results = ExampleResults /\ EmailOnly(call.contact)) =>
        /\ ret.totalScore =
              calculateLeadScore(ExampleResults, PhoneAndName).totalScore - 35
        /\ ret.totalScore >= 40 /\ ret.totalScore < 70
        /\ ret.category = "warm"

\* C3 as amended: for the example results a contact with only an email scores
\* 20 points fewer (15 for the phone, 5 for the name) than the same results with
\* phone and name present: 75 instead of 95, and both totals are 'hot'.
C3_EmailOnlyExampleLoses20 ==
    (Scored /\ call.results = ExampleResults) =>
        /\ EmailOnly(call.contact) =>
              /\ ret.totalScore =
                    calculateLeadScore(ExampleResults, PhoneAndName).totalScore - 20
              /\ ret.totalScore = 75
              /\ ret.category = "hot"
        /\ call.contact = PhoneAndName =>
              (ret.totalScore = 95 /\ ret.category = "hot")

C3_Witness ==
    /\ Scored /\ call.results = ExampleResults
    /\ call.contact.phone = "undefined" /\ call.contact.name = "undefined"
    /\ ret.totalScore = 75 /\ ret.category = "hot"

(***************************************************************************)
(* Claims about determineFinalSystemSize (checked under SpecSize)          *)
(***************************************************************************)

Sized == pc = "return" /\ call.fn = "determineFinalSystemSize"

\* C4: for all recommended and max with recommended > max,
\* determineFinalSystemSize(recommended, max) returns a final size that does
\* not exceed max, also after the rounding to the nearest 0.5 kWp.
C4_FinalSizeWithinRoofMaximum ==
    (Sized /\ call.recommendedKwp > call.maxKwp) => ret <= call.maxKwp

(***************************************************************************)
(* Claims about getPitchFactor (checked under SpecPitch)                   *)
(***************************************************************************)

PitchReturned == pc = "return" /\ call.fn = "getPitchFactor"

StrictlyBetween(x, a, b) ==
    (IF a <= b THEN a ELSE b) < x /\ x < (IF a <= b THEN b ELSE a)

\* C5 as stated: getPitchFactor returns exactly the table value at each anchor
\* pitch, and for every pitch strictly between two neighbouring anchors a value
\* strictly between the two anchors' table values.
C5_StrictlyBetweenNeighbours ==
    PitchReturned =>
        /\ call.pitch \in DOMAIN PITCH_FACTORS => ret = PITCH_FACTORS[call.pitch]
        /\ \A i \in 1..(Len(pitches) - 1) :
              (pitches[i] < call.pitch /\ call.pitch < pitches[i + 1]) =>
                  StrictlyBetween(ret, PITCH_FACTORS[pitches[i]],
                                  PITCH_FACTORS[pitches[i + 1]])

\* C5 as amended: getPitchFactor returns exactly the table value at each anchor
\* pitch; for a pitch strictly between two neighbouring anchors whose table
\* values differ it returns a value strictly between them, and between two
\* neighbouring anchors with the same table value (30 and 35, both 1.0) it
\* returns that value.
C5_BetweenNeighboursStrictlyWhenTheyDiffer ==
    PitchReturned =>
        /\ call.pitch \in DOMAIN PITCH_FACTORS => ret = PITCH_FACTORS[call.pitch]
        /\ \A i \in 1..(Len(pitches) - 1) :
              (pitches[i] < call.pitch /\ call.pitch < pitches[i + 1]) =>
                  IF PITCH_FACTORS[pitches[i]] = PITCH_FACTORS[pitches[i + 1]]
                  THEN ret = PITCH_FACTORS[pitches[i]]
                  ELSE StrictlyBetween(ret, PITCH_FACTORS[pitches[i]],
                                       PITCH_FACTORS[pitches[i + 1]])

\* getPitchFactor(12) = 0.948, strictly between 0.94 (10) and 0.96 (15)
C5_Witness ==
    PitchReturned /\ call.pitch = 12 /\ ret = 948

(***************************************************************************)
(* Claims about calculateROI25Years (checked under SpecROI)                *)
(***************************************************************************)

ROIReturned == pc = "return" /\ call.fn = "calculateROI25Years"

\* annualBenefit of the call in millionths of a pound; annualBenefit x 25 in
\* pounds is this number divided by 40000
AnnualBenefitMicro ==
    call.annualGeneration
        * (call.selfConsumptionRatio * call.electricityRatePence
           + (100 - call.selfConsumptionRatio) * call.exportRatePence)

\* roi25Years < annualBenefit x 25 - systemCost
BelowUndegraded == (ret + call.systemCost) * 40000 < AnnualBenefitMicro

\* C6 as stated: for all annualGeneration, selfConsumptionRatio, electricity
\* rate, export rate and systemCost, calculateROI25Years returns a value
\* strictly less than annualBenefit x 25 - systemCost.
C6_ROIStrictlyBelowUndegraded ==
    ROIReturned => BelowUndegraded

\* C6 as amended: whenever annualBenefit is at least 0.50 pounds,
\* calculateROI25Years returns a value strictly less than
\* annualBenefit x 25 - systemCost; with annualBenefit 0 it returns exactly
\* -systemCost, which equals annualBenefit x 25 - systemCost.
C6_ROIBelowUndegradedFromHalfAPound ==
    ROIReturned =>
        /\ AnnualBenefitMicro >= 500000 => BelowUndegraded
        /\ AnnualBenefitMicro = 0 => ret = 0 - call.systemCost

\* calculations.test.ts:251: 3500 kWh, ratio 0.45, 27.69 p, 15 p, cost 7000
C6_Witness ==
    /\ ROIReturned
    /\ call.annualGeneration = 3500 /\ call.selfConsumptionRatio = 45
    /\ call.electricityRatePence = 2769 /\ call.exportRatePence = 1500
    /\ call.systemCost = 7000
    /\ ret > 0 /\ BelowUndegraded

(***************************************************************************)
(* Claims about calculateSolarEstimate (checked under SpecEstimate)        *)
(***************************************************************************)

Estimated == pc = "return" /\ call.fn = "calculateSolarEstimate"

\* The generation of the returned system under a given irradiance
GenerationUnder(irradiance) ==
    calculateAnnualGeneration(ret.recommendedSystemSize, irradiance,
                              getOrientationFactor(call.inputs.roofOrientation),
                              getPitchFactor(call.inputs.roofPitch),
                              call.inputs.shadingFactor)

\* C7: whenever the caller passes an irradiance argument (any numeric value,
\* including 0), that value is the one used for generation and metadata records
\* irradianceUsed = that value with irradianceSource = 'PVGIS'; the UK-average
\* constant 1000 with 'UK_AVERAGE' is used only when no argument is supplied.
C7_SuppliedIrradianceIsUsed ==
    Estimated =>
        IF call.irradiance # Undefined
        THEN /\ ret.metadata.irradianceUsed = call.irradiance
             /\ ret.metadata.irradianceSource = "PVGIS"
             /\ ret.estimatedAnnualGeneration = GenerationUnder(call.irradiance)
        ELSE /\ ret.metadata.irradianceUsed = SOLAR_CONFIG.ukAverageIrradiance
             /\ ret.metadata.irradianceSource = "UK_AVERAGE"

\* The rate a caller's override stands for: the override when one is supplied,
\* the configured rate when it is absent
RateMeant(override, configured) ==
    IF override # Undefined THEN override ELSE configured

\* C8: whenever inputs carry an electricityUnitRate or exportTariffRate override
\* (any numeric value, including 0), calculateSolarEstimate uses it for
\* annualSavings, annualExportEarnings and roi25Years and metadata records the
\* rates used; the configured 27.69 p and 15.0 p are used only for an absent
\* override.
C8_RateOverridesAreUsed ==
    Estimated =>
        LET electricityRate ==
                RateMeant(call.inputs.electricityUnitRate,
                          UK_ENERGY_CONFIG.electricityRatePence)
            exportRate ==
                RateMeant(call.inputs.exportTariffRate,
                          UK_ENERGY_CONFIG.segExportRatePence)
        IN  /\ ret.metadata.electricityRate = electricityRate
            /\ ret.metadata.exportRate = exportRate
            /\ ret.annualSavings =
                  calculateAnnualSavings(ret.selfConsumedKwh, electricityRate)
            /\ ret.annualExportEarnings =
                  calculateExportEarnings(ret.exportedKwh, exportRate)
            /\ ret.roi25Years =
                  calculateROI25Years(ret.estimatedAnnualGeneration,
                                      ret.selfConsumptionRatio, electricityRate,
                                      exportRate, ret.estimatedSystemCost)

\* C9: when an orientation or occupancy outside the enumerated sets reaches the
\* engine, the lookups return a default entry of their table, so
\* calculateSolarEstimate returns defined numeric results and no undefined
\* factor.
C9_LookupMissGivesDefinedResults ==
    (Estimated /\ (call.inputs.roofOrientation \notin RoofOrientation
                   \/ call.inputs.homeOccupancy \notin HomeOccupancy)) =>
        /\ IsNumber(ret.metadata.orientationFactor)
        /\ IsNumber(ret.selfConsumptionRatio)
        /\ IsNumber(ret.recommendedSystemSize)
        /\ IsNumber(ret.numberOfPanels)
        /\ IsNumber(ret.estimatedAnnualGeneration)
        /\ IsNumber(ret.selfConsumedKwh)
        /\ IsNumber(ret.exportedKwh)
        /\ IsNumber(ret.annualSavings)
        /\ IsNumber(ret.annualExportEarnings)
        /\ IsNumber(ret.totalAnnualBenefit)
        /\ IsNumber(ret.estimatedSystemCost)
        /\ IsNumber(ret.paybackPeriod)
        /\ IsNumber(ret.roi25Years)
        /\ IsNumber(ret.co2SavedAnnually)
        /\ IsNumber(ret.co2Saved25Years)

\* The documented domain of calculateSolarEstimate
InDocumentedDomain(inputs) ==
    /\ inputs.roofOrientation \in RoofOrientation
    /\ inputs.homeOccupancy \in HomeOccupancy
    /\ inputs.roofPitch >= 0 /\ inputs.roofPitch <= 90
    /\ inputs.roofArea >= 5 /\ inputs.roofArea <= 500
    /\ inputs.shadingFactor \in ShadingLevel
    /\ inputs.annualElectricityUsage >= 500 /\ inputs.annualElectricityUsage <= 50000

\* C10: over the documented domain (enumerated orientation and occupancy, pitch
\* 0..90, roofArea 5..500, shadingFactor in {1.0, 0.9, 0.75, 0.5, 0}, usage
\* 500..50000) calculateSolarEstimate completes and no division it executes has
\* a zero divisor; the payback division is not executed when the benefit is 0.
C10_NoZeroDivisorOnDocumentedDomain ==
    (Estimated /\ InDocumentedDomain(call.inputs) /\ call.irradiance # 0) =>
        \A i \in DOMAIN divisions : divisions[i].divisor # 0

(***************************************************************************)
(* Claims about repeated calls (checked under SpecRepeat)                  *)
(***************************************************************************)

\* A result without the time of its calculation
WithoutCalculatedAt(results) ==
    [results EXCEPT !.metadata = [irradianceUsed |-> @.irradianceUsed,
                                  irradianceSource |-> @.irradianceSource,
                                  electricityRate |-> @.electricityRate,
                                  exportRate |-> @.exportRate,
                                  systemLossFactor |-> @.systemLossFactor,
                                  orientationFactor |-> @.orientationFactor]]

PaybackReturned == pc = "return" /\ call.fn = "calculatePaybackPeriod"

\* t tenths of a year is cost / benefit rounded to one decimal place, a tie
\* rounded up: t - 1/2 <= 1000 * cost / benefit < t + 1/2
IsRoundedPayback(t, cost, benefit) ==
    /\ 2 * t * benefit - benefit <= 2000 * cost
    /\ 2000 * cost < 2 * t * benefit + benefit

\* C12: calculatePaybackPeriod(cost, benefit) returns the positive-infinity
\* sentinel for every benefit <= 0 (never a negative or undefined payback), and
\* for benefit > 0 the finite value cost / benefit rounded to 1 decimal place.
C12_PaybackSentinelOrRoundedQuotient ==
    PaybackReturned =>
        IF call.annualBenefit <= 0 THEN ret = Infinity
        ELSE /\ IsFinite(ret) /\ ret >= 0
             /\ IsRoundedPayback(ret, call.systemCost, call.annualBenefit)

\* calculatePaybackPeriod(6500, 745) = 8.7
C12_Witness ==
    /\ PaybackReturned
    /\ call.systemCost = 6500 /\ call.annualBenefit = 74500 /\ ret = 87

(***************************************************************************)
(* Claims about the self-consumed / exported split (checked under          *)
(* SpecSplit)                                                              *)
(***************************************************************************)

MonthlyReturned == pc = "return" /\ call.fn = "calculateMonthlyGeneration"

\* C13: in every calculateSolarEstimate result (orientation and occupancy of
\* the enumerated types) selfConsumedKwh + exportedKwh =
\* estimatedAnnualGeneration, and in each of the 12 entries of
\* calculateMonthlyGeneration, for any annualGeneration and ratio,
\* selfConsumedKwh + exportedKwh = that month's generationKwh.
C13_SplitConservesGeneration ==
    /\ (Estimated /\ call.inputs.roofOrientation \in RoofOrientation
                  /\ call.inputs.homeOccupancy \in HomeOccupancy) =>
          /\ IsFinite(ret.estimatedAnnualGeneration)
          /\ ret.selfConsumedKwh + ret.exportedKwh = ret.estimatedAnnualGeneration
          /\ \A index \in 1..12 :
                ret.monthlyGeneration[index].selfConsumedKwh
                    + ret.monthlyGeneration[index].exportedKwh
                  = ret.monthlyGeneration[index].generationKwh
    /\ MonthlyReturned =>
          /\ DOMAIN ret = 1..12
          /\ \A index \in 1..12 :
                /\ IsFinite(ret[index].generationKwh)
                /\ ret[index].selfConsumedKwh + ret[index].exportedKwh
                      = ret[index].generationKwh

\* June of 3010 kWh at ratio 0.35: 391 kWh, of which 137 self-consumed
C13_Witness ==
    /\ MonthlyReturned
    /\ call.annualGeneration = 3010 /\ call.selfConsumptionRatio = 35
    /\ ret[6].generationKwh = 391 /\ ret[6].selfConsumedKwh = 137
    /\ ret[6].exportedKwh = 254

(***************************************************************************)
(* Further claims about the lead scorer (checked under SpecScore)          *)
(***************************************************************************)

\* C14: in every calculateLeadScore output the category is 'hot' exactly when
\* totalScore >= 70, 'warm' exactly when 40 <= totalScore < 70, and 'cool'
\* exactly when totalScore < 40.
C14_CategoryFollowsThresholds ==
    Scored =>
        /\ ret.category \in {"hot", "warm", "cool"}
        /\ ret.category = "hot" <=> ret.totalScore >= 70
        /\ ret.category = "warm" <=> (ret.totalScore >= 40 /\ ret.totalScore < 70)
        /\ ret.category = "cool" <=> ret.totalScore < 40

\* a total of exactly 70 is 'hot'
C14_Witness ==
    Scored /\ ret.totalScore = 70 /\ ret.category = "hot"

\* The factors that are computed from the results alone
ResultFactors == {1, 2, 3, 6, 7, 8}

Present(field) == field # "undefined" /\ field # ""

\* C16: Phone Provided awards 15 points exactly when contact.phone is present
\* and non-empty and Name Provided 5 points exactly when contact.name is
\* present and non-empty; a missing or empty field yields 0 points for its
\* factor, and the value and points of the other six factors do not depend on
\* the contact.
C16_ContactPointsAndFrame ==
    Scored =>
        /\ ret.factors[4].name = "Phone Provided"
        /\ ret.factors[4].points = (IF Present(call.contact.phone) THEN 15 ELSE 0)
        /\ ret.factors[4].value = Present(call.contact.phone)
        /\ ret.factors[5].name = "Name Provided"
        /\ ret.factors[5].points = (IF Present(call.contact.name) THEN 5 ELSE 0)
        /\ ret.factors[5].value = Present(call.contact.name)
        /\ \A other \in ScorerContacts : \A i \in ResultFactors :
              calculateLeadScore(call.results, other).factors[i] = ret.factors[i]

\* an empty phone and a name: 0 and 5 points
C16_Witness ==
    /\ Scored /\ call.contact.phone = "" /\ call.contact.name = "John Smith"
    /\ ret.factors[4].points = 0 /\ ret.factors[5].points = 5

(***************************************************************************)
(* Claims about the payback factor (checked under SpecPaybackFactor)       *)
(***************************************************************************)

\* points is (15 - payback) / 8 * 20 rounded to a nearest whole number; at an
\* exact tie the double arithmetic of the code decides between the two
IsNearestPaybackPoints(points, payback) ==
    /\ 2 * (80 * points - (150 - payback) * 20) <= 80
    /\ 2 * ((150 - payback) * 20 - 80 * points) <= 80

\* C15: the Payback Period factor awards the full 20 points when
\* paybackPeriod <= 7, 0 points when paybackPeriod >= 15 (the positive-infinity
\* sentinel included), and round((15 - paybackPeriod) / 8 x 20) for values
\* strictly between 7 and 15.
C15_PaybackFactorPoints ==
    Scored =>
        LET payback == call.results.paybackPeriod
            factor == ret.factors[2]
        IN  /\ factor.name = "Payback Period"
            /\ factor.value = payback
            /\ payback <= 70 => factor.points = 20
            /\ payback >= 150 => factor.points = 0
            /\ (payback > 70 /\ payback < 150) =>
                  /\ IsNearestPaybackPoints(factor.points, payback)
                  /\ payback \notin PaybackTiesBelow =>
                        factor.points = RoundDiv((150 - payback) * 20, 80)

\* scoring.test.ts:166: a payback of 14 years earns round(1 / 8 x 20) = 3
C15_Witness ==
    /\ Scored /\ call.results.paybackPeriod = 140
    /\ ret.factors[2].points = 3

(***************************************************************************)
(* Claims about calculateSystemCost (checked under SpecCost)               *)
(***************************************************************************)

CostReturned == pc = "return" /\ call.fn = "calculateSystemCost"

TypicalCall ==
    /\ call.inputs.roofOrientation = "S" /\ call.inputs.roofPitch = 35
    /\ call.inputs.roofArea = 30 /\ call.inputs.shadingFactor = 100
    /\ call.inputs.annualElectricityUsage = 3500
    /\ call.inputs.homeOccupancy = "daytime"
    /\ call.inputs.electricityUnitRate = Undefined
    /\ call.inputs.exportTariffRate = Undefined
    /\ call.irradiance = Undefined

\* C18: for orientation S, pitch 35, roofArea 30, shading 1.0, usage 3500,
\* occupancy daytime, no irradiance argument and no rate overrides,
\* calculateSolarEstimate yields irradianceSource 'UK_AVERAGE', irradianceUsed
\* 1000, recommendedSystemSize strictly between 2 and 8 kWp, paybackPeriod
\* strictly between 5 and 15 years, and roi25Years > 0.
C18_TypicalInstallation ==
    (Estimated /\ TypicalCall) =>
        /\ ret.metadata.irradianceSource = "UK_AVERAGE"
        /\ ret.metadata.irradianceUsed = 1000
        /\ ret.recommendedSystemSize > 20 /\ ret.recommendedSystemSize < 80
        /\ ret.paybackPeriod > 50 /\ ret.paybackPeriod < 150
        /\ IsFinite(ret.roi25Years) /\ ret.roi25Years > 0

\* the typical installation: 3.5 kWp, 3010 kWh, 4550 pounds, 7.1 years and
\* 10584 pounds over 25 years
C18_Witness ==
    /\ Estimated /\ TypicalCall
    /\ ret.recommendedSystemSize = 35 /\ ret.estimatedAnnualGeneration = 3010
    /\ ret.estimatedSystemCost = 4550 /\ ret.paybackPeriod = 71
    /\ ret.roi25Years = 10584

(***************************************************************************)
(* Claims about getRegionalIrradiance (checked under SpecRegion)           *)
(***************************************************************************)

RegionReturned == pc = "return" /\ call.fn = "getRegionalIrradiance"

\* C19: getRegionalIrradiance(region) returns the table value for every region
\* listed in the regional-irradiance table and, for every region name that is
\* not in the table, the default entry (950).
C19_UnknownRegionGivesDefault ==
    RegionReturned =>
        IF call.region \in DOMAIN REGIONAL_IRRADIANCE
        THEN ret = REGIONAL_IRRADIANCE[call.region]
        ELSE ret = 950

(***************************************************************************)
(* Claims about calculateRecommendedSize (checked under SpecRecommend)     *)
(***************************************************************************)

Recommended == pc = "return" /\ call.fn = "calculateRecommendedSize"

\* The size recommended when one argument of the call is replaced
WithUsage(u) ==
    calculateRecommendedSize(u, call.irradiance, call.orientationFactor,
                             call.pitchFactor, call.shadingFactor)

WithOrientation(o) ==
    calculateRecommendedSize(call.annualUsage, call.irradiance, o, call.pitchFactor,
                             call.shadingFactor)

WithPitch(p) ==
    calculateRecommendedSize(call.annualUsage, call.irradiance, call.orientationFactor,
                             p, call.shadingFactor)

WithShading(sh) ==
    calculateRecommendedSize(call.annualUsage, call.irradiance, call.orientationFactor,
                             call.pitchFactor, sh)

\* C20 as stated: with the other arguments fixed and positive, a smaller
\* orientation, pitch or shading factor yields a larger recommended size, and a
\* larger annual usage yields a larger recommended size.
C20_StrictlyMonotoneSize ==
    Recommended =>
        /\ \A o \in RecommendOrientationFactors :
              o < call.orientationFactor => WithOrientation(o) > ret
        /\ \A p \in RecommendPitchFactors :
              p < call.pitchFactor => WithPitch(p) > ret
        /\ \A sh \in RecommendShadingFactors :
              sh < call.shadingFactor => WithShading(sh) > ret
        /\ \A u \in RecommendUsages :
              u > call.annualUsage => WithUsage(u) > ret

\* C20 as amended: with the other arguments fixed and positive, a smaller
\* orientation, pitch or shading factor never yields a smaller recommended
\* size, and a larger annual usage never yields a smaller one; the size is
\* rounded to 0.1 kWp, so two close arguments can yield the same size.
C20_MonotoneSize ==
    Recommended =>
        /\ IsFinite(ret) /\ ret >= 0
        /\ \A o \in RecommendOrientationFactors :
              o < call.orientationFactor => WithOrientation(o) >= ret
        /\ \A p \in RecommendPitchFactors :
              p < call.pitchFactor => WithPitch(p) >= ret
        /\ \A sh \in RecommendShadingFactors :
              sh < call.shadingFactor => WithShading(sh) >= ret
        /\ \A u \in RecommendUsages :
              u > call.annualUsage => WithUsage(u) >= ret

\* calculations.test.ts:58-60: 3000 kWh at 1000 kWh/kWp gives 3.1 kWp facing
\* south (factor 1.0) and 5.7 kWp facing north (factor 0.55)
C20_Witness ==
    /\ Recommended
    /\ call.annualUsage = 3000 /\ call.irradiance = 1000
    /\ call.orientationFactor = 100 /\ call.pitchFactor = 1000
    /\ call.shadingFactor = 100
    /\ ret = 31 /\ WithOrientation(55) = 57

(***************************************************************************)
(* Claims about the rate limiter of POST /api/leads (checked under         *)
(* SpecRateLimit)                                                          *)
(***************************************************************************)

Responded == pc = "responded"

\* The requests of ip that passed checkRateLimit within the hour starting at t
PassedWithinHour(ip, t) ==
    {j \in 1..Len(passed[ip]) : passed[ip][j] >= t /\ passed[ip][j] < t + 3600000}

\* C21: for every client IP and every interval of one hour, at most 5 requests
\* of that IP pass checkRateLimit, whatever the timing of its requests and of
\* other IPs' requests; a request that does not pass is answered 429.
C21_AtMostFivePassPerHour ==
    /\ \A ip \in DOMAIN passed : \A i \in 1..Len(passed[ip]) :
          Cardinality(PassedWithinHour(ip, passed[ip][i])) <= 5
    /\ Responded /\ ~call.bodyUsed => ret.status = 429

\* C22: a request rejected by the rate limiter is answered 429 before its body
\* is read, logs no lead, consent record or email, and leaves the count and
\* the resetTime of every IP as they were.
C22_RejectedRequestChangesNothing ==
    [][pc' = "responded" /\ ~call'.bodyUsed =>
          /\ ret'.status = 429
          /\ console' = console
          /\ rateLimitStore' = rateLimitStore
          /\ passed' = passed]_vars

\* The sixth request of a client within its window is rejected while the
\* other client has a record of its own and leads have been logged
C22_Witness ==
    /\ Responded
    /\ ret.status = 429
    /\ ~call.bodyUsed
    /\ DOMAIN rateLimitStore = {"203.0.113.7", "unknown"}
    /\ rateLimitStore[ClientIP(call.headers)].count = 5
    /\ dateNow = rateLimitStore[ClientIP(call.headers)].resetTime
    /\ console # <<>>

(***************************************************************************)
(* Claims about the validation of POST /api/leads (checked under           *)
(* SpecLeads)                                                              *)
(***************************************************************************)

\* A property of the body that is a string, and its characters
IsString(x) == x.t = "string"

\* What the claim requires of a body
SubmissionIsValid(body) ==
    LET contact == Get(body, "contact")
        consent == Get(body, "consent")
        calculationId == Get(body, "calculationId")
    IN  /\ body.t = "object"
        /\ IsString(Get(contact, "email"))
        /\ validateEmail(Get(contact, "email").v)
        /\ Get(contact, "phone").t \in {"undefined", "string"}
        /\ IsString(Get(contact, "phone")) => validateUKPhone(Get(contact, "phone").v)
        /\ Get(consent, "privacyAcceptance") = JSBoolean(TRUE)
        /\ Get(consent, "marketingConsent") = JSBoolean(TRUE)
        /\ IsString(calculationId)
        /\ calculationId.v # <<>>
        /\ Get(contact, "name").t \in {"undefined", "string"}
        /\ IsString(Get(contact, "name")) => NAME_REGEX(trim(Get(contact, "name").v))

\* C23: POST /api/leads logs a lead, its consent record and its email and
\* answers 201 only when the submission is valid (email present and valid,
\* phone valid if present, privacyAcceptance true, marketingConsent true,
\* calculationId a non-empty string, name valid if present); when one of
\* these checks fails it answers 400 and logs none of the three.
C23_LeadOnlyForValidSubmission ==
    [][pc' = "responded" /\ call'.bodyUsed =>
          IF SubmissionIsValid(call'.body)
          THEN ret'.status = 201 => console' = console \o LeadLines
          ELSE ret'.status = 400 /\ console' = console]_vars

(***************************************************************************)
(* Claims about the postcode cache (checked under SpecPostcodeCache)       *)
(***************************************************************************)

\* A step that is a call of the given function (the clock stands still)
CallOf(fn) == pc' = "return" /\ call'.fn = fn /\ dateNow' = dateNow

\* C24: an entry written by setPostcodeCache(p, r) at time t is returned by
\* getPostcodeCache(p) at every time up to t + 7 days, and at every later time
\* getPostcodeCache(p) returns null and removes the entry.
C24_EntriesLiveSevenDays ==
    [][/\ CallOf("setPostcodeCache") /\ ~call'.setItemThrows =>
             /\ getCacheKey(call'.postcode) \in DOMAIN localStorage'
             /\ localStorage'[getCacheKey(call'.postcode)].data = call'.response
             /\ localStorage'[getCacheKey(call'.postcode)].timestamp = dateNow
       /\ CallOf("getPostcodeCache") /\ getCacheKey(call'.postcode) \in DOMAIN localStorage =>
             LET key == getCacheKey(call'.postcode)
                 entry == localStorage[key]
             IN  IF dateNow <= entry.timestamp + 7 * 24 * 60 * 60 * 1000
                 THEN ret'.hit /\ ret'.value = entry.data /\ localStorage' = localStorage
                 ELSE /\ ~ret'.hit
                      /\ DOMAIN localStorage' = DOMAIN localStorage \ {key}
                      /\ \A k \in DOMAIN localStorage' : localStorage'[k] = localStorage[k]
       /\ dateNow' # dateNow => localStorage' = localStorage]_vars

\* getPostcodeCache("sw1a1aa") returns the response stored for "SW1A 1AA" at
\* time 1 when exactly 7 days have passed since
C24_Witness ==
    /\ pc = "return"
    /\ call.fn = "getPostcodeCache"
    /\ call.postcode = sw1a1aa
    /\ ret.hit
    /\ ret.value = PostcodeDirectory[SW1A_1AA]
    /\ localStorage[getCacheKey(SW1A_1AA)].timestamp = 1
    /\ dateNow = 1 + 7 * 24 * 60 * 60 * 1000

(***************************************************************************)
(* Claims about getIrradianceValue (checked under SpecIrradiance)          *)
(***************************************************************************)

IrradianceReturned == pc = "return" /\ call.fn = "getIrradianceValue"

\* C25: getIrradianceValue returns a number: the PVGIS annual value when the
\* fetch or a cache entry that has not expired succeeds, otherwise the
\* regional value of the given region (the table's default entry for a region
\* name that is not in the table), otherwise, without a region, the UK average.
C25_IrradianceFromPVGISOrFallback ==
    IrradianceReturned =>
        /\ IsFinite(ret.value)
        /\ ret.value \notin {InheritedProperty, Null}
        /\ IF ret.result.success THEN ret.value = ret.result.annualIrradiance
           ELSE IF call.region \notin {"undefined", ""}
           THEN ret.value = (IF call.region \in DOMAIN REGIONAL_IRRADIANCE
                             THEN REGIONAL_IRRADIANCE[call.region]
                             ELSE REGIONAL_IRRADIANCE["default"])
           ELSE ret.value = SOLAR_CONFIG.ukAverageIrradiance

(***************************************************************************)
(* Claims about the Location step of the wizard (checked under SpecWizard) *)
(***************************************************************************)

\* The coordinates of the form are those of the postcode of the form
CoordinatesBelongToPostcode ==
    LET p == normalizePostcode(formState.postcode)
    IN  /\ p \in DOMAIN PostcodeDirectory
        /\ formState.latitude = PostcodeDirectory[p].latitude
        /\ formState.longitude = PostcodeDirectory[p].longitude

\* C26: whenever formState.latitude and formState.longitude are not null they
\* are the lookup result for the postcode held in formState.postcode, under
\* every interleaving of postcode edits and lookups that settle; hence the
\* wizard is past the Location step only with coordinates that belong to the
\* postcode entered.
C26_CoordinatesBelongToEnteredPostcode ==
    /\ formState.latitude # Null /\ formState.longitude # Null => CoordinatesBelongToPostcode
    /\ currentStep > 0 => CoordinatesBelongToPostcode

(***************************************************************************)
(* Claims about the monthly breakdown (checked under SpecSplit)            *)
(***************************************************************************)

RECURSIVE SumGenerationKwh(_, _)
\* The sum of the generationKwh of the first n months
SumGenerationKwh(months, n) ==
    IF n = 0 THEN 0 ELSE months[n].generationKwh + SumGenerationKwh(months, n - 1)

\* C27: for every non-negative integer annualGeneration the twelve
\* generationKwh values returned by calculateMonthlyGeneration sum exactly to
\* annualGeneration.
C27_MonthsSumToAnnualGeneration ==
    MonthlyReturned /\ call.annualGeneration >= 0 =>
        SumGenerationKwh(ret, 12) = call.annualGeneration

(***************************************************************************)
(* Claims about the cost across the tiers (checked under SpecCost)         *)
(***************************************************************************)

\* C28: over the multiples of 0.5 kWp, calculateSystemCost is non-decreasing
\* in the size: a larger size never costs less, also across the tier
\* boundaries at 3 and 6 kWp.
C28_CostNonDecreasingInSize ==
    CostReturned /\ call.systemSizeKwp % 5 = 0 =>
        \A s2 \in (call.systemSizeKwp + 1) .. MaxCostSizeTenths :
            s2 % 5 = 0 => ret <= calculateSystemCost(s2)

(***************************************************************************)
(* Claims about the scorer's monotonicity (checked under SpecMonotone)     *)
(***************************************************************************)

\* The total score of the call with one field of the results raised to v
RaisedScore(field, v) ==
    calculateLeadScore([call.results EXCEPT ![field] = v], call.contact).totalScore

\* C29: with everything else fixed, raising recommendedSystemSize,
\* totalAnnualBenefit, selfConsumptionRatio, numberOfPanels or
\* estimatedAnnualGeneration never lowers totalScore, and raising
\* paybackPeriod never raises it.
C29_ScoreMonotoneInEachField ==
    Scored =>
        \A field \in ScorerFields : \A v \in FieldValues(field) :
            v > call.results[field] =>
                IF field = "paybackPeriod" THEN RaisedScore(field, v) <= ret.totalScore
                ELSE RaisedScore(field, v) >= ret.totalScore

\* The modest results with a payback of 9 years score 53 with a phone number;
\* 11 years score 5 points less and 6 kWp score 13 points more
C29_Witness ==
    /\ Scored
    /\ call.results = [ModestResults EXCEPT !.paybackPeriod = 90]
    /\ call.contact.phone = "07700900123"
    /\ ret.totalScore = 53
    /\ ret.totalScore = RaisedScore("paybackPeriod", 110) + 5
    /\ ret.totalScore = RaisedScore("recommendedSystemSize", 60) - 13

(***************************************************************************)
(* Claims about the location of an estimate (checked under SpecLocation)   *)
(***************************************************************************)

\* C30: two calls of calculateSolarEstimate whose inputs differ only in
\* postcode, latitude and longitude, with the same irradiance argument, return
\* the same value in every result field other than the time of calculation.
C30_ResultsDoNotDependOnLocation ==
    \A i, j \in DOMAIN ret :
        WithoutCalculatedAt(ret[i].results) = WithoutCalculatedAt(ret[j].results)

\* The same roof estimated in London and in Edinburgh, without an irradiance
\* argument and with the PVGIS value 950
C30_Witness ==
    /\ Len(ret) = 2
    /\ ret[1].inputs.postcode = "SW1A 1AA"
    /\ ret[2].inputs.postcode = "EH1 1YZ"
    /\ ret[1].inputs.latitude # ret[2].inputs.latitude
    /\ ret[1].results.estimatedAnnualGeneration = ret[2].results.estimatedAnnualGeneration
    /\ ret[1].results.estimatedAnnualGeneration > 0
    /\ ret[1].results.metadata.calculatedAt < ret[2].results.metadata.calculatedAt

====
